---------------------------- MODULE Spec2Model ----------------------------
(***************************************************************************)
(* A model of JuriBot's document ingestion pipeline: format-aware text     *)
(* extraction with OCR fallback (pages/Document_Analyzer.py,               *)
(* utils/ocr_utils.py), the text cleaner (utils/text_cleaner.py) and the   *)
(* rule-based structural analyzers (utils/nlp_utils.py).                   *)
(*                                                                         *)
(* A text is a sequence of characters; a character is a one-character      *)
(* string, or a short mnemonic for a character outside ASCII.  The regular *)
(* expressions of the source are kept as data and matched with the         *)
(* priorities of Python's backtracking re module, for all offsets of a     *)
(* text at once.                                                           *)
(***************************************************************************)
EXTENDS Integers, Sequences, FiniteSets, Bags, TLC

(***************************************************************************)
(* State.                                                                  *)
(*                                                                         *)
(* cl_*: a caller of the text cleaner: it cleans a raw text and then       *)
(*       cleans the cleaned text again (what a cache or a re-run does).    *)
(* sc_*: a call of is_scanned_pdf(text, threshold).  sc_core_len records   *)
(*       how the text was built: the length of the part between its        *)
(*       leading and trailing whitespace.                                  *)
(* dc_*: a call of detect_legal_clauses(text).                             *)
(* oc_*: a call of extract_text_from_pdf_ocr(pdf_file), statement by       *)
(*       statement.  oc_doc is what the rasterizer and the OCR engine do   *)
(*       with the file; fs is the set of temporary files that exist.       *)
(* pp_*: one run of the Document Analyzer page: the file-upload flow, or   *)
(*       the text-input flow on the pasted text pp_input.                  *)
(*       pp_doc is the uploaded file: what each library does with it.      *)
(*       pp_calls is the log of the calls made, with the text each was     *)
(*       given; pp_failed tells that the extraction raised; the settings   *)
(*       pp_auto_translate, pp_gemini and pp_nlp are "unread" until the    *)
(*       flow reads them.                                                  *)
(* da_*: a call of detect_indian_acts(text).  da_found is the list of the  *)
(*       matches before the duplicates are dropped.                        *)
(* tr_*: a call of truncate_text(text, max_length, add_ellipsis).          *)
(* co_*: a call of clean_ocr_text(text) on its own.                        *)
(* db_*: the chat_history table, the clock of the database in seconds,    *)
(*       and the last get_chat_history call with what it returned.         *)
(* ch_*: the Legal Chatbot page: st.session_state, the chat_history of    *)
(*       the GeminiFlash instance of the last script run, and the requests *)
(*       sent to the API.                                                  *)
(* gm_*: one GeminiFlash instance: its chat_history, the requests it      *)
(*       sent, what the last call returned, the number of calls.           *)
(* cc_*: two calls of extract_text_from_pdf_ocr on two threads, each      *)
(*       variable a function of the thread; cc_fs is the directory of      *)
(*       temporary files, with the thread that wrote each file; cc_read    *)
(*       and cc_unlinked tell whose file a thread rasterized and deleted.  *)
(* st_*: standardize_legal_terms(text) on its own, applied once and again; *)
(*       st_matched holds the abbreviation patterns that match the first   *)
(*       result.                                                           *)
(* hf_*: a call of remove_headers_footers on its own; hf_lines are the     *)
(*       lines of its text.                                                *)
(* doc_*: the documents table of JuriBotDB; the number of add_document     *)
(*       calls, the last call, the table before it and what it returned.   *)
(***************************************************************************)
VARIABLES cl_pc, cl_text, cl_once, cl_twice,
          sc_pc, sc_text, sc_threshold, sc_core_len, sc_result,
          dc_pc, dc_text, dc_clauses,
          oc_pc, oc_doc, oc_tmp_path, oc_images, oc_i, oc_full_text, oc_exc,
          oc_result, fs,
          pp_pc, pp_doc, pp_pdf_text, pp_extracted, pp_failed, pp_cleaned,
          pp_lang, pp_final, pp_auto_translate, pp_gemini, pp_nlp,
          pp_translation, pp_stats, pp_entities, pp_clauses, pp_acts,
          pp_input, pp_calls,
          da_pc, da_text, da_found, da_acts,
          tr_pc, tr_text, tr_max_length, tr_add_ellipsis, tr_result,
          co_pc, co_text, co_result,
          db_chat, db_now, db_query, db_messages,
          ch_pc, ch_chat_history, ch_session_id, ch_gemini_chat, ch_gemini,
          ch_requests, ch_uuids,
          gm_chat_history, gm_requests, gm_returned, gm_calls,
          cc_pc, cc_doc, cc_tmp_path, cc_images, cc_i, cc_full_text, cc_exc,
          cc_result, cc_read, cc_unlinked, cc_fs,
          st_pc, st_text, st_once, st_matched, st_twice,
          hf_pc, hf_lines, hf_result,
          doc_rows, doc_n, doc_call, doc_before, doc_returned

cleanVars == << cl_pc, cl_text, cl_once, cl_twice >>

scanVars == << sc_pc, sc_text, sc_threshold, sc_core_len, sc_result >>

clauseVars == << dc_pc, dc_text, dc_clauses >>

ocrVars ==
    << oc_pc, oc_doc, oc_tmp_path, oc_images, oc_i, oc_full_text, oc_exc,
       oc_result, fs >>

pipeVars ==
    << pp_pc, pp_doc, pp_pdf_text, pp_extracted, pp_failed, pp_cleaned,
       pp_lang, pp_final, pp_auto_translate, pp_gemini, pp_nlp,
       pp_translation, pp_stats, pp_entities, pp_clauses, pp_acts,
       pp_input, pp_calls >>

actVars == << da_pc, da_text, da_found, da_acts >>

truncVars == << tr_pc, tr_text, tr_max_length, tr_add_ellipsis, tr_result >>

repairVars == << co_pc, co_text, co_result >>

histVars == << db_chat, db_now, db_query, db_messages >>

chatVars == << ch_pc, ch_chat_history, ch_session_id, ch_gemini_chat, ch_gemini, ch_requests, ch_uuids >>

gmVars == << gm_chat_history, gm_requests, gm_returned, gm_calls >>

concVars ==
    << cc_pc, cc_doc, cc_tmp_path, cc_images, cc_i, cc_full_text, cc_exc,
       cc_result, cc_read, cc_unlinked, cc_fs >>

termVars == << st_pc, st_text, st_once, st_matched, st_twice >>

headerVars == << hf_pc, hf_lines, hf_result >>

docVars == << doc_rows, doc_n, doc_call, doc_before, doc_returned >>

vars == << cleanVars, scanVars, clauseVars, ocrVars, pipeVars, actVars, truncVars, repairVars, histVars, chatVars, gmVars, concVars, termVars, headerVars, docVars >>

\* What the steps of one component leave alone: the other components.
cleanFrame == << scanVars, clauseVars, ocrVars, pipeVars, actVars, truncVars, repairVars, histVars, chatVars, gmVars, concVars, termVars, headerVars, docVars >>

scanFrame == << cleanVars, clauseVars, ocrVars, pipeVars, actVars, truncVars, repairVars, histVars, chatVars, gmVars, concVars, termVars, headerVars, docVars >>

clauseFrame == << cleanVars, scanVars, ocrVars, pipeVars, actVars, truncVars, repairVars, histVars, chatVars, gmVars, concVars, termVars, headerVars, docVars >>

ocrFrame == << cleanVars, scanVars, clauseVars, pipeVars, actVars, truncVars, repairVars, histVars, chatVars, gmVars, concVars, termVars, headerVars, docVars >>

pipeFrame == << cleanVars, scanVars, clauseVars, actVars, truncVars, repairVars, histVars, chatVars, gmVars, concVars, termVars, headerVars, docVars >>

actFrame == << cleanVars, scanVars, clauseVars, ocrVars, pipeVars, truncVars, repairVars, histVars, chatVars, gmVars, concVars, termVars, headerVars, docVars >>

truncFrame == << cleanVars, scanVars, clauseVars, ocrVars, pipeVars, actVars, repairVars, histVars, chatVars, gmVars, concVars, termVars, headerVars, docVars >>

repairFrame == << cleanVars, scanVars, clauseVars, ocrVars, pipeVars, actVars, truncVars, histVars, chatVars, gmVars, concVars, termVars, headerVars, docVars >>

histFrame == << cleanVars, scanVars, clauseVars, ocrVars, pipeVars, actVars, truncVars, repairVars, chatVars, gmVars, concVars, termVars, headerVars, docVars >>

\* The page writes the chat_history table.
chatFrame == << cleanVars, scanVars, clauseVars, ocrVars, pipeVars, actVars, truncVars, repairVars, gmVars, concVars, termVars, headerVars, docVars >>

gmFrame == << cleanVars, scanVars, clauseVars, ocrVars, pipeVars, actVars, truncVars, repairVars, histVars, chatVars, concVars, termVars, headerVars, docVars >>

concFrame == << cleanVars, scanVars, clauseVars, ocrVars, pipeVars, actVars, truncVars, repairVars, histVars, chatVars, gmVars, termVars, headerVars, docVars >>

termFrame == << cleanVars, scanVars, clauseVars, ocrVars, pipeVars, actVars, truncVars, repairVars, histVars, chatVars, gmVars, concVars, headerVars, docVars >>

headerFrame == << cleanVars, scanVars, clauseVars, ocrVars, pipeVars, actVars, truncVars, repairVars, histVars, chatVars, gmVars, concVars, termVars, docVars >>

docFrame == << cleanVars, scanVars, clauseVars, ocrVars, pipeVars, actVars, truncVars, repairVars, histVars, chatVars, gmVars, concVars, termVars, headerVars >>

(***************************************************************************)
(* Characters and character classes (Python's re on str patterns).         *)
(***************************************************************************)
UpperSeq ==
    << "A","B","C","D","E","F","G","H","I","J","K","L","M",
       "N","O","P","Q","R","S","T","U","V","W","X","Y","Z" >>

LowerSeq ==
    << "a","b","c","d","e","f","g","h","i","j","k","l","m",
       "n","o","p","q","r","s","t","u","v","w","x","y","z" >>

Upper == { UpperSeq[k] : k \in DOMAIN UpperSeq }

Lower == { LowerSeq[k] : k \in DOMAIN LowerSeq }

Letters == Upper \cup Lower

AsciiDigits == { "0","1","2","3","4","5","6","7","8","9" }

\* "FW0" and "FW1" stand for the full-width digits zero and one, U+FF10
\* and U+FF11, which \d matches.  Other mnemonics: BACKTICK (U+0060),
\* DQUOTE (U+0022), EMDASH (U+2014), ENDASH (U+2013), SECTIONSIGN (U+00A7),
\* LSQUOTE and RSQUOTE (U+2018, U+2019), LDQUOTE and RDQUOTE (U+201C,
\* U+201D).
Digits == AsciiDigits \cup { "FW0", "FW1" }

\* \s
Whitespace == { " ", "\t", "\n", "\r" }

\* \w
WordChars == Letters \cup Digits \cup { "_" }

LowerOf == [ c \in Upper |-> LowerSeq[CHOOSE k \in DOMAIN UpperSeq : UpperSeq[k] = c] ]

UpperOf == [ c \in Lower |-> UpperSeq[CHOOSE k \in DOMAIN LowerSeq : LowerSeq[k] = c] ]

ToLower(c) == IF c \in Upper THEN LowerOf[c] ELSE c

ToUpper(c) == IF c \in Lower THEN UpperOf[c] ELSE c

\* A literal under re.IGNORECASE (ic) or not.
CharEq(a, b, ic) == IF ic THEN ToLower(a) = ToLower(b) ELSE a = b

\* A character set under re.IGNORECASE (ic) or not.
InClass(c, S, ic) == c \in S \/ (ic /\ (ToLower(c) \in S \/ ToUpper(c) \in S))

(***************************************************************************)
(* Regular expressions as data.                                            *)
(***************************************************************************)
Lit(c) == [ t |-> "lit", c |-> c ]

Cls(S) == [ t |-> "set", s |-> S ]

NotCls(S) == [ t |-> "nset", s |-> S ]

Cat(rs) == [ t |-> "cat", rs |-> rs ]

Alt(rs) == [ t |-> "alt", rs |-> rs ]

\* r{lo,hi}, greedy; hi = -1 is unbounded.
Rep(r, lo, hi) == [ t |-> "rep", r |-> r, lo |-> lo, hi |-> hi ]

Star(r) == Rep(r, 0, -1)

Plus(r) == Rep(r, 1, -1)

Opt(r) == Rep(r, 0, 1)

WordB == [ t |-> "wb" ]

Bol == [ t |-> "bol" ]

Eol == [ t |-> "eol" ]

\* The characters of a literal word, one after the other.
Word(w) == [ t |-> "word", w |-> w ]

IsChar(r) == r.t \in { "lit", "set", "nset" }

\* Whether the one-character expression r matches the character c.
CharMatch(r, c, ic) ==
    CASE r.t = "lit"  -> CharEq(c, r.c, ic)
      [] r.t = "set"  -> InClass(c, r.s, ic)
      [] r.t = "nset" -> ~ InClass(c, r.s, ic)

IsWordAt(s, i) == i >= 1 /\ i <= Len(s) /\ s[i] \in WordChars

\* Zero-width assertions at offset i (i characters consumed); ml is
\* re.MULTILINE.
ZeroWidthAt(r, s, i, ml) ==
    CASE r.t = "wb"  -> IsWordAt(s, i) # IsWordAt(s, i + 1)
      [] r.t = "bol" -> i = 0 \/ (ml /\ s[i] = "\n")
      [] r.t = "eol" -> \/ i = Len(s)
                        \/ (ml /\ s[i + 1] = "\n")
                        \/ (i = Len(s) - 1 /\ s[i + 1] = "\n")

\* The longest run of characters from offset i that r matches, at most hi.
RunLen(r, s, i, hi, ic) ==
    LET lim == IF hi < 0 \/ hi > Len(s) - i THEN Len(s) - i ELSE hi
    IN  CHOOSE k \in 0..lim :
            /\ k = lim \/ ~ CharMatch(r, s[i + k + 1], ic)
            /\ \A j \in 1..k : CharMatch(r, s[i + j], ic)

\* The element of a one-element set.  A chain of steps text = step(text) is
\* written as the image of { text } under each step in turn, so that each
\* step runs on the finished result of the one before.
The(S) == CHOOSE y \in S : TRUE

\* A table over the offsets 0..Len(s) of a text, as a finished tuple: entry
\* p is for offset p - 1.  An entry is the offset where the first match (in
\* Python's priority order) from that offset ends, or -1.
Table(f) == f \o << >>

Offsets(s) == 1..(Len(s) + 1)

\* Nothing left to match: a match from offset i ends at i.
Here(s) == Table([ p \in Offsets(s) |-> p - 1 ])

Nowhere(s) == Table([ p \in Offsets(s) |-> -1 ])

\* One character that r matches, then what the table K stands for.
StepChar(r, K, s, fl) ==
    Table([ p \in Offsets(s) |->
              IF p <= Len(s) /\ CharMatch(r, s[p], fl.ic) THEN K[p + 1] ELSE -1 ])

\* The characters of the literal word w, then K.
StepWord(w, K, s, fl) ==
    Table([ p \in Offsets(s) |->
              IF /\ p - 1 + Len(w) <= Len(s)
                 /\ \A j \in DOMAIN w : CharEq(s[p - 1 + j], w[j], fl.ic)
              THEN K[p + Len(w)]
              ELSE -1 ])

StepZero(r, K, s, fl) ==
    Table([ p \in Offsets(s) |->
              IF ZeroWidthAt(r, s, p - 1, fl.ml) THEN K[p] ELSE -1 ])

\* Greedy repetition of a one-character expression over a run of n
\* characters from entry p: give back one character at a time, down to lo.
GiveBack(K, p, lo, n) ==
    IF \A j \in lo..n : K[p + j] = -1 THEN -1
    ELSE K[p + CHOOSE j \in lo..n :
                   /\ K[p + j] # -1
                   /\ \A m \in (j + 1)..n : K[p + m] = -1]

StepRun(r, K, s, fl) ==
    Table([ p \in Offsets(s) |->
              GiveBack(K, p, r.lo, RunLen(r.r, s, p - 1, r.hi, fl.ic)) ])

\* One more round of a repeated group (A) first; without it (K) only when
\* no round is owed.
OrElse(A, K, lo) ==
    Table([ p \in DOMAIN A |->
              IF A[p] # -1 THEN A[p] ELSE IF lo = 0 THEN K[p] ELSE -1 ])

\* The first alternative that leads to a match.
FirstOf(As, s) ==
    Table([ p \in Offsets(s) |->
              IF \A a \in DOMAIN As : As[a][p] = -1 THEN -1
              ELSE As[CHOOSE a \in DOMAIN As :
                          /\ As[a][p] # -1
                          /\ \A b \in 1..(a - 1) : As[b][p] = -1][p] ])

RECURSIVE Ends(_, _, _, _)
RECURSIVE EndsCat(_, _, _, _, _)
RECURSIVE EndsLoop(_, _, _, _, _)
RECURSIVE LoopStep(_, _, _, _, _, _)
\* The backtracking matcher, for all offsets of s at once: the table of r
\* followed by what the table K stands for.  fl = [ic, ml] are the flags.
\* A sequence whose first expression matches nowhere in s matches nowhere.
Ends(r, K, s, fl) ==
    CASE IsChar(r) -> StepChar(r, K, s, fl)
      [] r.t \in { "wb", "bol", "eol" } -> StepZero(r, K, s, fl)
      [] r.t = "word" -> StepWord(r.w, K, s, fl)
      [] r.t = "cat" ->
           IF r.rs # << >> /\ Ends(r.rs[1], Here(s), s, fl) = Nowhere(s)
           THEN Nowhere(s)
           ELSE EndsCat(r.rs, Len(r.rs), K, s, fl)
      [] r.t = "alt" ->
           FirstOf([ a \in DOMAIN r.rs |-> Ends(r.rs[a], K, s, fl) ] \o << >>, s)
      [] r.t = "rep" ->
           IF IsChar(r.r) THEN StepRun(r, K, s, fl)
           ELSE IF r.hi = 0 THEN (IF r.lo = 0 THEN K ELSE Nowhere(s))
           ELSE IF r.hi = -1 /\ r.lo = 0 THEN EndsLoop(r.r, K, K, s, fl)
           ELSE OrElse(Ends(r.r,
                            Ends(Rep(r.r,
                                     IF r.lo > 0 THEN r.lo - 1 ELSE 0,
                                     IF r.hi > 0 THEN r.hi - 1 ELSE r.hi),
                                 K, s, fl),
                            s, fl),
                       K, r.lo)

\* The expressions rs[1..k], then K.  Before a K that matches nowhere
\* nothing matches.
EndsCat(rs, k, K, s, fl) ==
    IF k = 0 \/ K = Nowhere(s) THEN K
    ELSE The({ EndsCat(rs, k - 1, Kk, s, fl) : Kk \in { Ends(rs[k], K, s, fl) } })

\* g*, a group that matches no empty text: X is the table of at most so
\* many rounds of g; one more round is allowed until the table stays as it
\* is.
EndsLoop(g, X, K, s, fl) ==
    LoopStep(g, X, OrElse(Ends(g, X, s, fl), K, 0), K, s, fl)

LoopStep(g, X, Y, K, s, fl) ==
    IF Y = X THEN X ELSE EndsLoop(g, Y, K, s, fl)

\* Where a match of r from each offset of s ends.
MatchEnds(r, s, fl) == Ends(r, Here(s), s, fl)

\* todo is the sequence of expressions to match from offset i; the result
\* is the offset where the first match ends, or -1.
MatchFrom(todo, s, i, fl) == MatchEnds(Cat(todo), s, fl)[i + 1]

\* The leftmost match [st, en] (offsets) from offset pos in the table T, or
\* st = -1.
SearchIn(T, pos) ==
    IF \A q \in pos..(Len(T) - 1) : T[q + 1] = -1
    THEN [ st |-> -1, en |-> -1 ]
    ELSE LET p == CHOOSE q \in pos..(Len(T) - 1) :
                      /\ T[q + 1] # -1
                      /\ \A q2 \in pos..(q - 1) : T[q2 + 1] = -1
         IN  [ st |-> p, en |-> T[p + 1] ]

\* re.search from offset pos
Search(r, s, pos, fl) == SearchIn(MatchEnds(r, s, fl), pos)

\* s[a+1..b]
Slice(s, a, b) == SubSeq(s, a + 1, b)

\* The replacement text of one match m: a constant text, or the group
\* templates \1 (the last character) and \1 \2 (two characters set apart).
Expand(repl, m) ==
    CASE repl.t = "text"  -> repl.v
      [] repl.t = "last"  -> << m[Len(m)] >>
      [] repl.t = "apart" -> << m[1], " ", m[2] >>

Text(v) == [ t |-> "text", v |-> v ]

RECURSIVE SubFrom(_, _, _, _)
RECURSIVE SubStep(_, _, _, _, _)
\* re.sub from offset pos on, T being the table of the pattern's matches:
\* the text up to the next match, its replacement, and on from the end of
\* the match.
SubFrom(T, repl, s, pos) == SubStep(T, repl, s, pos, SearchIn(T, pos))

\* m is the next match from pos.  After an empty match the scan moves on
\* by one character.
SubStep(T, repl, s, pos, m) ==
    IF m.st = -1 THEN Slice(s, pos, Len(s))
    ELSE IF m.en > m.st
         THEN Slice(s, pos, m.st) \o Expand(repl, Slice(s, m.st, m.en))
              \o SubFrom(T, repl, s, m.en)
         ELSE IF m.st = Len(s)
              THEN Slice(s, pos, Len(s)) \o Expand(repl, << >>)
              ELSE Slice(s, pos, m.st) \o Expand(repl, << >>)
                   \o << s[m.st + 1] >>
                   \o SubFrom(T, repl, s, m.st + 1)

\* re.sub(pattern, repl, s, flags)
ReSub(r, repl, s, fl) == SubFrom(MatchEnds(r, s, fl), repl, s, 0)

NoFlags == [ ic |-> FALSE, ml |-> FALSE ]

IgnoreCase == [ ic |-> TRUE, ml |-> FALSE ]

MultiLine == [ ic |-> FALSE, ml |-> TRUE ]

IgnoreCaseMultiLine == [ ic |-> TRUE, ml |-> TRUE ]

(***************************************************************************)
(* utils/text_cleaner.py                                                   *)
(***************************************************************************)
\* str.strip(): the text without its leading and trailing whitespace.
Strip(s) ==
    LET keep == { k \in DOMAIN s : s[k] \notin Whitespace }
    IN  IF keep = {} THEN << >>
        ELSE LET a == CHOOSE k \in keep : \A m \in keep : k <= m
                 b == CHOOSE k \in keep : \A m \in keep : m <= k
             IN  SubSeq(s, a, b)

\* The dict of OCR confusions, in its insertion order.  The two quote
\* patterns are the concatenated Python literals r"[" "`]" and r'["""]',
\* that is the class of the backtick alone and the class of the straight
\* double quote alone.
OcrReplacements ==
    << [ p |-> Lit("|"),        v |-> << "I" >> ],
       [ p |-> Lit("FW0"),      v |-> << "0" >> ],
       [ p |-> Cls({ "BACKTICK" }), v |-> << "'" >> ],
       [ p |-> Cls({ "DQUOTE" }), v |-> << "DQUOTE" >> ],
       [ p |-> Lit("EMDASH"),   v |-> << "-" >> ],
       [ p |-> Lit("ENDASH"),   v |-> << "-" >> ] >>

RECURSIVE ApplyAll(_, _, _, _)
\* for pattern, replacement in table.items(): text = re.sub(...)
ApplyAll(table, k, s, fl) ==
    IF k > Len(table) THEN s
    ELSE The({ ApplyAll(table, k + 1, x, fl) :
                 x \in { ReSub(table[k].p, Text(table[k].v), s, fl) } })

clean_ocr_text(text) ==
    The({ Strip(t3) : t3 \in
        { ApplyAll(OcrReplacements, 1, t2, NoFlags) : t2 \in
        { ReSub(Rep(Lit("\n"), 3, -1), Text(<< "\n", "\n" >>), t1, NoFlags) : t1 \in
        { ReSub(Plus(Cls(Whitespace)), Text(<< " " >>), text, NoFlags) } } } })

\* The k-th (from 1) of the positions of s that hold a newline.
NewlineAt(s, k) ==
    CHOOSE p \in DOMAIN s :
        /\ s[p] = "\n"
        /\ Cardinality({ q \in 1..p : s[q] = "\n" }) = k

\* The k-th piece of s between newlines, of n pieces.
LineOf(s, k, n) ==
    SubSeq(s, IF k = 1 THEN 1 ELSE NewlineAt(s, k - 1) + 1,
              IF k = n THEN Len(s) ELSE NewlineAt(s, k) - 1)

\* The pieces of s between newlines, n of them.
LinesOf(s, n) == [ k \in 1..n |-> LineOf(s, k, n) ]

\* text.split("\n")
SplitLines(s) == LinesOf(s, Cardinality({ p \in DOMAIN s : s[p] = "\n" }) + 1)

RECURSIVE JoinLines(_)
\* "\n".join(lines)
JoinLines(lines) ==
    IF lines = << >> THEN << >>
    ELSE IF Len(lines) = 1 THEN lines[1]
    ELSE lines[1] \o << "\n" >> \o JoinLines(Tail(lines))

RECURSIVE KeepUnstripped(_, _)
\* The filter that looks a line up as it stands, without line.strip().
KeepUnstripped(lines, repeated) ==
    IF lines = << >> THEN << >>
    ELSE IF Head(lines) \in repeated
         THEN KeepUnstripped(Tail(lines), repeated)
         ELSE << Head(lines) >> \o KeepUnstripped(Tail(lines), repeated)

\* SelectSeq with the test written out (a line is kept unless repeated).
RECURSIVE KeepLines(_, _)
KeepLines(lines, repeated) ==
    IF lines = << >> THEN << >>
    ELSE IF Strip(Head(lines)) \in repeated
         THEN KeepLines(Tail(lines), repeated)
         ELSE << Head(lines) >> \o KeepLines(Tail(lines), repeated)

HeaderMinLen == 5

HeaderMaxLen == 100

HeaderRepeat == 3

remove_headers_footers(text) ==
    LET lines == SplitLines(text)
        counted(k) == Len(Strip(lines[k])) > HeaderMinLen
                      /\ Len(Strip(lines[k])) < HeaderMaxLen
        line_count(l) ==
            Cardinality({ k \in DOMAIN lines : counted(k) /\ Strip(lines[k]) = l })
        repeated_lines ==
            { Strip(lines[k]) : k \in { j \in DOMAIN lines :
                  counted(j) /\ line_count(Strip(lines[j])) > HeaderRepeat } }
    IN  JoinLines(KeepLines(lines, repeated_lines))

Punct == { ",", ".", ";", ":", "!", "?" }

normalize_whitespace(text) ==
    The({ ReSub(Cat(<< Cls(Punct), Cls(Letters) >>), [ t |-> "apart" ], t3, NoFlags) : t3 \in
        { ReSub(Cat(<< Plus(Cls(Whitespace)), Cls(Punct) >>), [ t |-> "last" ], t2, NoFlags) : t2 \in
        { ReSub(Plus(Lit(" ")), Text(<< " " >>), t1, NoFlags) : t1 \in
        { ReSub(Lit("\t"), Text(<< " " >>), text, NoFlags) } } } })

remove_page_numbers(text) ==
    The({ ReSub(Cat(<< Word(<< "P", "a", "g", "e" >>), Plus(Cls(Whitespace)),
                       Plus(Cls(Digits)) >>),
                Text(<< >>), t1, IgnoreCase) : t1 \in
        { ReSub(Cat(<< Bol, Star(Cls(Whitespace)), Plus(Cls(Digits)),
                       Star(Cls(Whitespace)), Eol >>),
                Text(<< >>), text, MultiLine) } })

\* \bword\.?\b
Abbrev(w) == Cat(<< WordB, Word(w), Opt(Lit(".")), WordB >>)

\* \bword\b
Whole(w) == Cat(<< WordB, Word(w), WordB >>)

\* The dict of abbreviations, in its insertion order.
Abbreviations ==
    << [ p |-> Abbrev(<< "v", "s" >>), v |-> << "v", "e", "r", "s", "u", "s" >> ],
       [ p |-> Whole(<< "V", "/", "s" >>), v |-> << "v", "e", "r", "s", "u", "s" >> ],
       [ p |-> Abbrev(<< "s", "e", "c" >>), v |-> << "s", "e", "c", "t", "i", "o", "n" >> ],
       [ p |-> Abbrev(<< "a", "r", "t" >>), v |-> << "a", "r", "t", "i", "c", "l", "e" >> ],
       [ p |-> Abbrev(<< "p", "a", "r", "a" >>), v |-> << "p", "a", "r", "a", "g", "r", "a", "p", "h" >> ],
       [ p |-> Abbrev(<< "c", "l" >>), v |-> << "c", "l", "a", "u", "s", "e" >> ],
       [ p |-> Cat(<< WordB, Word(<< "H", "o", "n" >>), Opt(Lit("'")), Word(<< "b", "l", "e" >>), WordB >>),
         v |-> << "H", "o", "n", "o", "r", "a", "b", "l", "e" >> ],
       [ p |-> Whole(<< "I", "P", "C" >>), v |-> << "I", "n", "d", "i", "a", "n", " ", "P", "e", "n", "a", "l", " ", "C", "o", "d", "e" >> ],
       [ p |-> Whole(<< "C", "r", "P", "C" >>), v |-> << "C", "o", "d", "e", " ", "o", "f", " ", "C", "r", "i", "m", "i", "n", "a", "l", " ", "P", "r", "o", "c", "e", "d", "u", "r", "e" >> ],
       [ p |-> Whole(<< "C", "P", "C" >>), v |-> << "C", "o", "d", "e", " ", "o", "f", " ", "C", "i", "v", "i", "l", " ", "P", "r", "o", "c", "e", "d", "u", "r", "e" >> ] >>

\* The table with an expansion that names its abbreviation:
\* "Indian Penal Code (IPC)".
standardize_naming_acronym(text) ==
    ApplyAll([ k \in DOMAIN Abbreviations |->
                 IF Abbreviations[k].p = Whole(<< "I", "P", "C" >>)
                 THEN [ p |-> Abbreviations[k].p,
                        v |-> Abbreviations[k].v \o << " ", "(", "I", "P", "C", ")" >> ]
                 ELSE Abbreviations[k] ],
             1, text, IgnoreCase)

standardize_legal_terms(text) == ApplyAll(Abbreviations, 1, text, IgnoreCase)

clean_legal_document(text) ==
    The({ standardize_legal_terms(t4) : t4 \in
        { normalize_whitespace(t3) : t3 \in
        { remove_headers_footers(t2) : t2 \in
        { remove_page_numbers(t1) : t1 \in
        { clean_ocr_text(text) } } } } })


(***************************************************************************)
(* Cleaning a raw text, and cleaning it again.                             *)
(***************************************************************************)
\* The pieces raw texts are made of.
CleanTokens ==
    { << "x" >>, << " " >>, << "\n" >>, << "P", "a", "g", "e", " ", "5" >>, << "7" >>, << "." >>, << "," >>, << "s", "e", "c" >>, << "I", "P", "C" >>, << "|" >> }

MaxCleanTokens == 3

RECURSIVE Flatten(_)
Flatten(ts) == IF ts = << >> THEN << >> ELSE Head(ts) \o Flatten(Tail(ts))

CleanInputs ==
    UNION { { Flatten(ts) : ts \in [ 1..n -> CleanTokens ] } : n \in 0..MaxCleanTokens }

\* "Hon'ble Court referred to sec. 420 IPC"
HonbleExample ==
    << "H", "o", "n", "'", "b", "l", "e", " ", "C", "o", "u", "r", "t",
       " ", "r", "e", "f", "e", "r", "r", "e", "d", " ", "t", "o", " ",
       "s", "e", "c", ".", " ", "4", "2", "0", " ", "I", "P", "C" >>

\* A document of eight lines, every other one the line "Header".
HeaderExample ==
    << "H", "e", "a", "d", "e", "r", "\n", "x", "\n", "H", "e", "a", "d",
       "e", "r", "\n", "x", "\n", "H", "e", "a", "d", "e", "r", "\n", "x",
       "\n", "H", "e", "a", "d", "e", "r", "\n", "x" >>

\* A document of three lines, the second one the page number 7.
NumericExample ==
    << "x", "\n", "7", "\n", "x" >>

CleanExamples == { HonbleExample, HeaderExample, NumericExample }

CleanIdle ==
    /\ cl_pc = "off"
    /\ cl_text = << >>
    /\ cl_once = << >>
    /\ cl_twice = << >>

CleanInit ==
    /\ cl_pc = "raw"
    /\ cl_text \in CleanInputs \cup CleanExamples
    /\ cl_once = << >>
    /\ cl_twice = << >>

\* cleaned = clean_legal_document(text)
CleanFirst ==
    /\ cl_pc = "raw"
    /\ cl_once' = clean_legal_document(cl_text)
    /\ cl_pc' = "cleaned"
    /\ UNCHANGED << cl_text, cl_twice >>
    /\ UNCHANGED cleanFrame

\* clean_legal_document(cleaned)
CleanAgain ==
    /\ cl_pc = "cleaned"
    /\ cl_twice' = clean_legal_document(cl_once)
    /\ cl_pc' = "recleaned"
    /\ UNCHANGED << cl_text, cl_once >>
    /\ UNCHANGED cleanFrame

CleanNext == CleanFirst \/ CleanAgain

(***************************************************************************)
(* utils/ocr_utils.py: is_scanned_pdf.                                     *)
(***************************************************************************)
\* threshold=50
ScanThreshold == 50

is_scanned_pdf_inclusive(pdf_text, threshold) == Len(Strip(pdf_text)) <= threshold

is_scanned_pdf(pdf_text, threshold) == Len(Strip(pdf_text)) < threshold

MaxCoreLen == 3

\* The whitespace a text starts or ends with.
ScanPads == { << >>, << " " >>, << "\n", "\t" >> }

\* A text of n characters that neither starts nor ends with whitespace,
\* with a space inside it (gap) or not.
ScanCore(n, gap) == [ k \in 1..n |-> IF gap /\ k = 2 /\ n >= 3 THEN " " ELSE "x" ]

ScanCoreLens ==
    (0..MaxCoreLen) \cup { ScanThreshold - 1, ScanThreshold, ScanThreshold + 1 }

ScanThresholds == (0..(MaxCoreLen + 1)) \cup { ScanThreshold }

ScanIdle ==
    /\ sc_pc = "off"
    /\ sc_text = << >>
    /\ sc_threshold = 0
    /\ sc_core_len = 0
    /\ sc_result = FALSE

ScanInit ==
    /\ sc_pc = "call"
    /\ \E n \in ScanCoreLens, gap \in BOOLEAN, lead \in ScanPads, trail \in ScanPads :
          /\ sc_text = lead \o ScanCore(n, gap) \o trail
          /\ sc_core_len = n
    /\ sc_threshold \in ScanThresholds
    /\ sc_result = FALSE

\* is_scanned_pdf(pdf_text, threshold)
ScanCall ==
    /\ sc_pc = "call"
    /\ sc_result' = is_scanned_pdf(sc_text, sc_threshold)
    /\ sc_pc' = "done"
    /\ UNCHANGED << sc_text, sc_threshold, sc_core_len >>
    /\ UNCHANGED scanFrame

ScanNext == ScanCall

(***************************************************************************)
(* utils/nlp_utils.py: detect_legal_clauses.                               *)
(***************************************************************************)
\* \s+
Ws == Plus(Cls(Whitespace))

\* [^;.]+[;.]?
ToStop == << Plus(NotCls({ ";", "." })), Opt(Cls({ ";", "." })) >>

\* WORD\s+[^;.]+[;.]?
Heading(w) == Cat(<< Word(w), Ws >> \o ToStop)

\* The dict of clause patterns, in its insertion order.
ClausePatterns ==
    << [ type |-> "WHEREAS",
         p |-> Cat(<< Word(<< "W","H","E","R","E","A","S" >>), Ws,
                      Plus(NotCls({ ";" })), Opt(Lit(";")) >>) ],
       [ type |-> "PROVIDED",
         p |-> Cat(<< Word(<< "P","R","O","V","I","D","E","D" >>), Ws,
                      Alt(<< Word(<< "T","H","A","T" >>), Word(<< "t","h","a","t" >>) >>),
                      Ws >> \o ToStop) ],
       [ type |-> "NOTWITHSTANDING",
         p |-> Heading(<< "N","O","T","W","I","T","H","S","T","A","N","D","I","N","G" >>) ],
       [ type |-> "SUBJECT TO",
         p |-> Cat(<< Word(<< "S","U","B","J","E","C","T" >>), Ws,
                      Word(<< "T","O" >>), Ws >> \o ToStop) ],
       [ type |-> "IN WITNESS WHEREOF",
         p |-> Cat(<< Word(<< "I","N" >>), Ws,
                      Word(<< "W","I","T","N","E","S","S" >>), Ws,
                      Word(<< "W","H","E","R","E","O","F" >>),
                      Plus(NotCls({ "." })), Lit(".") >>) ],
       [ type |-> "THEREFORE",
         p |-> Cat(<< Word(<< "T","H","E","R","E","F","O","R","E" >>) >> \o ToStop) ],
       [ type |-> "AGREEMENT",
         p |-> Cat(<< Opt(Cat(<< Word(<< "T","H","I","S" >>), Ws >>)),
                      Word(<< "A","G","R","E","E","M","E","N","T" >>), Ws >> \o ToStop) ],
       [ type |-> "PARTIES",
         p |-> Cat(<< Opt(Cat(<< Word(<< "T","H","E" >>), Ws >>)),
                      Word(<< "P","A","R","T","I","E" >>), Opt(Lit("S")), Ws,
                      Alt(<< Word(<< "H","E","R","E","T","O" >>),
                             Cat(<< Word(<< "T","O" >>), Ws, Word(<< "T","H","I","S" >>) >>) >>)
                   >> \o ToStop) ],
       [ type |-> "CONSIDERATION",
         p |-> Heading(<< "C","O","N","S","I","D","E","R","A","T","I","O","N" >>) ],
       [ type |-> "INDEMNITY",
         p |-> Cat(<< Word(<< "I","N","D","E","M","N","I","T" >>),
                      Alt(<< Lit("Y"), Word(<< "I","E","S" >>) >>), Ws >> \o ToStop) ],
       [ type |-> "TERMINATION",
         p |-> Heading(<< "T","E","R","M","I","N","A","T","I","O","N" >>) ],
       [ type |-> "JURISDICTION",
         p |-> Heading(<< "J","U","R","I","S","D","I","C","T","I","O","N" >>) ],
       [ type |-> "FORCE MAJEURE",
         p |-> Cat(<< Word(<< "F","O","R","C","E" >>), Ws,
                      Word(<< "M","A","J","E","U","R","E" >>), Ws >> \o ToStop) ] >>

RECURSIVE FindFrom(_, _, _)
RECURSIVE FindStep(_, _, _, _)
\* re.finditer from offset pos on, T being the table of the pattern's
\* matches: the matches, left to right, none overlapping the one before.
FindFrom(T, s, pos) == FindStep(T, s, pos, SearchIn(T, pos))

FindStep(T, s, pos, m) ==
    IF m.st = -1 THEN << >>
    ELSE IF m.en > m.st THEN << m >> \o FindFrom(T, s, m.en)
    ELSE IF m.st = Len(s) THEN << m >>
    ELSE << m >> \o FindFrom(T, s, m.st + 1)

\* re.finditer(pattern, s, flags)
FindIter(r, s, fl) == FindFrom(MatchEnds(r, s, fl), s, 0)

\* The clauses.append(...) of one pattern's matches.
ClausesOf(type, text, ms) ==
    [ k \in DOMAIN ms |->
        [ type |-> type,
          content |-> Strip(Slice(text, ms[k].st, ms[k].en)),
          position |-> ms[k].st ] ]

\* for clause_type, pattern in patterns.items(): the clauses that each
\* pattern appends.
ClausesByPattern(text) ==
    Table([ k \in DOMAIN ClausePatterns |->
              ClausesOf(ClausePatterns[k].type, text,
                        FindIter(ClausePatterns[k].p, text, IgnoreCaseMultiLine)) ])

RECURSIVE CollectClauses(_, _)
\* The appends of the patterns, in the order of the dictionary, from the
\* k-th on.
CollectClauses(lists, k) ==
    IF k > Len(lists) THEN << >>
    ELSE lists[k] \o CollectClauses(lists, k + 1)

\* c put into the sorted list after every element that is not after it.
InsertByPosition(sorted, c) ==
    LET n == Cardinality({ k \in DOMAIN sorted : sorted[k].position <= c.position })
    IN  SubSeq(sorted, 1, n) \o << c >> \o SubSeq(sorted, n + 1, Len(sorted))

RECURSIVE SortFrom(_, _, _)
SortFrom(clauses, k, sorted) ==
    IF k > Len(clauses) THEN sorted
    ELSE SortFrom(clauses, k + 1, InsertByPosition(sorted, clauses[k]))

\* The list in the order of the appends.
AppendOrder(clauses) == clauses

\* clauses.sort(key=lambda x: x["position"]): a stable sort.
SortByPosition(clauses) == SortFrom(clauses, 1, << >>)

detect_legal_clauses(text) ==
    The({ SortByPosition(clauses) : clauses \in { CollectClauses(ClausesByPattern(text), 1) } })

\* The pieces the texts are made of.
ClauseTokens ==
    { << "W","H","E","R","E","A","S"," ","a",";" >>,
      << "T","h","e","r","e","f","o","r","e"," ","b","." >>,
      << "T","E","R","M","I","N","A","T","I","O","N","\n","c" >>,
      << "t","h","i","s"," ","a","g","r","e","e","m","e","n","t"," ","d",";" >>,
      << "I","n","d","e","m","n","i","t","i","e","s"," "," ","e" >>,
      << " " >>,
      << "." >> }

MaxClauseTokens == 3

ClauseInputs ==
    UNION { { Flatten(ts) : ts \in [1..n -> ClauseTokens] } : n \in 0..MaxClauseTokens }

ClauseIdle ==
    /\ dc_pc = "off"
    /\ dc_text = << >>
    /\ dc_clauses = << >>

ClauseInit ==
    /\ dc_pc = "call"
    /\ dc_text \in ClauseInputs
    /\ dc_clauses = << >>

\* clauses = detect_legal_clauses(text)
ClauseDetect ==
    /\ dc_pc = "call"
    /\ dc_clauses' = detect_legal_clauses(dc_text)
    /\ dc_pc' = "done"
    /\ UNCHANGED dc_text
    /\ UNCHANGED clauseFrame

ClauseNext == ClauseDetect

(***************************************************************************)
(* utils/nlp_utils.py: detect_indian_acts.                                 *)
(***************************************************************************)
\* The words ws with \s+ between them.
Phrase(ws) ==
    Cat([ k \in 1..(2 * Len(ws) - 1) |->
            IF k % 2 = 1 THEN Word(ws[(k + 1) \div 2]) ELSE Ws ])

\* (?:\s*,?\s*\d{4})?
YearOpt ==
    Opt(Cat(<< Star(Cls(Whitespace)), Opt(Lit(",")), Star(Cls(Whitespace)),
               Rep(Cls(Digits), 4, 4) >>))

\* Words\s+...\s+Words(?:\s*,?\s*\d{4})?
ActWithYear(ws) == Cat(<< Phrase(ws), YearOpt >>)

\* [A-Z][a-z]+
CapWord == Cat(<< Cls(Upper), Plus(Cls(Lower)) >>)

\* The list act_patterns, in its order.
ActPatterns ==
    << ActWithYear(<< << "I", "n", "d", "i", "a", "n" >>,
                      << "P", "e", "n", "a", "l" >>,
                      << "C", "o", "d", "e" >> >>),
       ActWithYear(<< << "C", "o", "d", "e" >>,
                      << "o", "f" >>,
                      << "C", "r", "i", "m", "i", "n", "a", "l" >>,
                      << "P", "r", "o", "c", "e", "d", "u", "r", "e" >> >>),
       ActWithYear(<< << "C", "o", "d", "e" >>,
                      << "o", "f" >>,
                      << "C", "i", "v", "i", "l" >>,
                      << "P", "r", "o", "c", "e", "d", "u", "r", "e" >> >>),
       ActWithYear(<< << "I", "n", "d", "i", "a", "n" >>,
                      << "C", "o", "n", "t", "r", "a", "c", "t" >>,
                      << "A", "c", "t" >> >>),
       ActWithYear(<< << "T", "r", "a", "n", "s", "f", "e", "r" >>,
                      << "o", "f" >>,
                      << "P", "r", "o", "p", "e", "r", "t", "y" >>,
                      << "A", "c", "t" >> >>),
       ActWithYear(<< << "C", "o", "m", "p", "a", "n", "i", "e", "s" >>,
                      << "A", "c", "t" >> >>),
       ActWithYear(<< << "I", "n", "c", "o", "m", "e" >>,
                      << "T", "a", "x" >>,
                      << "A", "c", "t" >> >>),
       ActWithYear(<< << "G", "o", "o", "d", "s" >>,
                      << "a", "n", "d" >>,
                      << "S", "e", "r", "v", "i", "c", "e", "s" >>,
                      << "T", "a", "x" >>,
                      << "A", "c", "t" >> >>),
       ActWithYear(<< << "C", "o", "n", "s", "u", "m", "e", "r" >>,
                      << "P", "r", "o", "t", "e", "c", "t", "i", "o", "n" >>,
                      << "A", "c", "t" >> >>),
       ActWithYear(<< << "I", "n", "f", "o", "r", "m", "a", "t", "i", "o", "n" >>,
                      << "T", "e", "c", "h", "n", "o", "l", "o", "g", "y" >>,
                      << "A", "c", "t" >> >>),
       ActWithYear(<< << "N", "e", "g", "o", "t", "i", "a", "b", "l", "e" >>,
                      << "I", "n", "s", "t", "r", "u", "m", "e", "n", "t", "s" >>,
                      << "A", "c", "t" >> >>),
       ActWithYear(<< << "A", "r", "b", "i", "t", "r", "a", "t", "i", "o", "n" >>,
                      << "a", "n", "d" >>,
                      << "C", "o", "n", "c", "i", "l", "i", "a", "t", "i", "o", "n" >>,
                      << "A", "c", "t" >> >>),
       Phrase(<< << "C", "o", "n", "s", "t", "i", "t", "u", "t", "i", "o", "n" >>, << "o", "f" >>, << "I", "n", "d", "i", "a" >> >>),
       Cat(<< CapWord, Star(Cat(<< Ws, CapWord >>)), Ws, Word(<< "A", "c", "t" >>), YearOpt >>) >>

\* (?:Section|Sec\.|s\.|§)\s*\d+(?:\s*\([a-z0-9]+\))?(?:\s+(?:of|to)\s+[^.;]+)?
SectionPattern ==
    Cat(<< Alt(<< Word(<< "S", "e", "c", "t", "i", "o", "n" >>), Word(<< "S", "e", "c", "." >>), Word(<< "s", "." >>), Lit("SECTIONSIGN") >>),
           Star(Cls(Whitespace)), Plus(Cls(Digits)),
           Opt(Cat(<< Star(Cls(Whitespace)), Lit("("),
                      Plus(Cls(Lower \cup AsciiDigits)), Lit(")") >>)),
           Opt(Cat(<< Ws, Alt(<< Word(<< "o", "f" >>), Word(<< "t", "o" >>) >>), Ws,
                      Plus(NotCls({ ".", ";" })) >>)) >>)

\* acts.append(match.group(0).strip()) for the matches ms in the text.
ActsOf(text, ms) == [ k \in DOMAIN ms |-> Strip(Slice(text, ms[k].st, ms[k].en)) ]

\* for pattern in act_patterns: the strings that each pattern appends.
ActsByPattern(text) ==
    Table([ k \in DOMAIN ActPatterns |->
              ActsOf(text, FindIter(ActPatterns[k], text, IgnoreCase)) ])

RECURSIVE CollectActs(_, _)
\* The appends of the patterns, in the order of act_patterns, from the k-th
\* on.
CollectActs(lists, k) ==
    IF k > Len(lists) THEN << >>
    ELSE lists[k] \o CollectActs(lists, k + 1)

\* The acts list before the return: the act matches, then the section
\* matches.
FoundActs(text) ==
    CollectActs(ActsByPattern(text), 1)
    \o ActsOf(text, FindIter(SectionPattern, text, IgnoreCase))

\* The strings of a list.
Range(list) == { list[k] : k \in DOMAIN list }

\* The list as it is, as a bag: every string as often as it is in the list.
BagOfList(list) ==
    [ e \in Range(list) |-> Cardinality({ k \in DOMAIN list : list[k] = e }) ]

\* list(set(acts)): the order of the result is not specified, the result is
\* kept as the bag of its elements.
ListOfSet(list) == SetToBag(Range(list))

detect_indian_acts(text) ==
    The({ ListOfSet(acts) : acts \in { FoundActs(text) } })

\* The pieces the texts are made of.
ActTokens ==
    { << "I","n","d","i","a","n"," ","P","e","n","a","l"," ","C","o","d","e",",",
         " ","1","8","6","0" >>,
      << "C","o","m","p","a","n","i","e","s"," ","A","c","t"," ","2","0","1","3" >>,
      << "S","e","c","t","i","o","n"," ","5" >>,
      << "s","e","c","."," ","1","2","(","a",")"," ","o","f"," ","x" >>,
      << " " >>,
      << ";", " " >>,
      << "t", "h", "e", " " >> }

MaxActTokens == 3

ActInputs ==
    UNION { { Flatten(ts) : ts \in [1..n -> ActTokens] } : n \in 0..MaxActTokens }

ActIdle ==
    /\ da_pc = "off"
    /\ da_text = << >>
    /\ da_found = << >>
    /\ da_acts = EmptyBag

ActInit ==
    /\ da_pc = "call"
    /\ da_text \in ActInputs
    /\ da_found = << >>
    /\ da_acts = EmptyBag

\* acts = detect_indian_acts(text); da_found keeps the list as it was
\* before the return statement.
ActDetect ==
    /\ da_pc = "call"
    /\ da_found' = FoundActs(da_text)
    /\ da_acts' = detect_indian_acts(da_text)
    /\ da_pc' = "done"
    /\ UNCHANGED da_text
    /\ UNCHANGED actFrame

ActNext == ActDetect

(***************************************************************************)
(* utils/ocr_utils.py: extract_text_from_pdf_ocr.                          *)
(***************************************************************************)
DigitSeq == << "0", "1", "2", "3", "4", "5", "6", "7", "8", "9" >>

RECURSIVE IntStr(_)
\* str(n) for n >= 0
IntStr(n) ==
    IF n < 10 THEN << DigitSeq[n + 1] >>
    ELSE IntStr(n \div 10) \o << DigitSeq[(n % 10) + 1] >>

RECURSIVE JoinParas(_)
\* "\n\n".join(parts)
JoinParas(parts) ==
    IF parts = << >> THEN << >>
    ELSE IF Len(parts) = 1 THEN parts[1]
    ELSE parts[1] \o << "\n", "\n" >> \o JoinParas(Tail(parts))

\* f"--- Page {i+1} ---\n{text}"
PageBlock(i, text) ==
    << "-", "-", "-", " ", "P", "a", "g", "e", " " >> \o IntStr(i + 1)
    \o << " ", "-", "-", "-", "\n" >> \o text

\* f"Error during PDF OCR: {str(e)}"
PdfOcrError(msg) ==
    << "E","r","r","o","r"," ","d","u","r","i","n","g"," ","P","D","F"," ",
       "O","C","R",":"," " >> \o msg

\* What a call of a library does: it returns text, or raises with message
\* text.
Returns(text) == [ ok |-> TRUE, text |-> text ]

Raises(msg) == [ ok |-> FALSE, text |-> msg ]

\* str(e) of the rasterizer's and of the OCR engine's exception.
RasterMsg == << "n", "o", " ", "p", "o", "p", "p", "l", "e", "r" >>

EngineMsg == << "t", "e", "s", "s", "e", "r", "a", "c", "t" >>

\* What pytesseract.image_to_string does with one page image.
ScanOutcomes ==
    { Returns(<< "W","H","E","R","E","A","S"," ","a",";","\n" >>),
      Returns(<< "s", "c", "a", "n", "\n" >>),
      Returns(<< >>),
      Raises(EngineMsg) }

MaxScanPages == 3

\* A PDF file as the OCR path sees it: whether convert_from_path raises,
\* and what the OCR engine does with each page image.
OcrDocs ==
    { [ raster |-> Raises(RasterMsg), scans |-> << >> ] }
    \cup UNION { { [ raster |-> Returns(<< >>), scans |-> sc ] :
                     sc \in [1..n -> ScanOutcomes] } : n \in 0..MaxScanPages }

\* One name for every temporary file.
SamePath(files) == 1

\* tempfile.NamedTemporaryFile: a name no existing file has.
FreshPath(files) == CHOOSE p \in 1..(Cardinality(files) + 1) : p \notin files

OcrIdle ==
    /\ oc_pc = "off"
    /\ oc_doc = [ raster |-> Returns(<< >>), scans |-> << >> ]
    /\ oc_tmp_path = 0
    /\ oc_images = << >>
    /\ oc_i = 0
    /\ oc_full_text = << >>
    /\ oc_exc = << >>
    /\ oc_result = << >>
    /\ fs = {}

OcrInit ==
    /\ oc_pc = "call"
    /\ oc_doc \in OcrDocs
    /\ oc_tmp_path = 0
    /\ oc_images = << >>
    /\ oc_i = 0
    /\ oc_full_text = << >>
    /\ oc_exc = << >>
    /\ oc_result = << >>
    /\ fs = {}

\* with tempfile.NamedTemporaryFile(delete=False, suffix=".pdf") as tmp_file:
\*     tmp_file.write(pdf_file.read()); tmp_path = tmp_file.name
OcrSave ==
    /\ oc_pc = "call"
    /\ oc_tmp_path' = FreshPath(fs)
    /\ fs' = fs \cup { FreshPath(fs) }
    /\ oc_pc' = "convert"
    /\ UNCHANGED << oc_doc, oc_images, oc_i, oc_full_text, oc_exc, oc_result >>
    /\ UNCHANGED ocrFrame

\* images = convert_from_path(tmp_path); an exception is raised again and
\* lands in the outer except.
OcrConvert ==
    /\ oc_pc = "convert"
    /\ IF oc_doc.raster.ok
       THEN /\ oc_images' = oc_doc.scans
            /\ oc_pc' = "pages"
            /\ UNCHANGED oc_exc
       ELSE /\ oc_exc' = oc_doc.raster.text
            /\ oc_pc' = "except"
            /\ UNCHANGED oc_images
    /\ UNCHANGED << oc_doc, oc_tmp_path, oc_i, oc_full_text, oc_result, fs >>
    /\ UNCHANGED ocrFrame

\* for i, image in enumerate(images): one turn of the loop.
OcrPage ==
    /\ oc_pc = "pages"
    /\ oc_i < Len(oc_images)
    /\ IF oc_images[oc_i + 1].ok
       THEN /\ oc_full_text' =
                 Append(oc_full_text, PageBlock(oc_i, oc_images[oc_i + 1].text))
            /\ oc_i' = oc_i + 1
            /\ UNCHANGED << oc_pc, oc_exc >>
       ELSE /\ oc_exc' = oc_images[oc_i + 1].text
            /\ oc_pc' = "except"
            /\ UNCHANGED << oc_i, oc_full_text >>
    /\ UNCHANGED << oc_doc, oc_tmp_path, oc_images, oc_result, fs >>
    /\ UNCHANGED ocrFrame

\* os.unlink(tmp_path), after the loop.
OcrUnlink ==
    /\ oc_pc = "pages"
    /\ oc_i = Len(oc_images)
    /\ fs' = fs \ { oc_tmp_path }
    /\ oc_pc' = "join"
    /\ UNCHANGED << oc_doc, oc_tmp_path, oc_images, oc_i, oc_full_text, oc_exc,
                    oc_result >>
    /\ UNCHANGED ocrFrame

\* return "\n\n".join(full_text)
OcrReturn ==
    /\ oc_pc = "join"
    /\ oc_result' = JoinParas(oc_full_text)
    /\ oc_pc' = "returned"
    /\ UNCHANGED << oc_doc, oc_tmp_path, oc_images, oc_i, oc_full_text, oc_exc, fs >>
    /\ UNCHANGED ocrFrame

\* except Exception as e: return f"Error during PDF OCR: {str(e)}"
OcrExcept ==
    /\ oc_pc = "except"
    /\ oc_result' = PdfOcrError(oc_exc)
    /\ oc_pc' = "returned"
    /\ UNCHANGED << oc_doc, oc_tmp_path, oc_images, oc_i, oc_full_text, oc_exc, fs >>
    /\ UNCHANGED ocrFrame

OcrNext ==
    \/ OcrSave
    \/ OcrConvert
    \/ OcrPage
    \/ OcrUnlink
    \/ OcrReturn
    \/ OcrExcept

(***************************************************************************)
(* pages/Document_Analyzer.py: the extractors.                             *)
(***************************************************************************)
\* f"Error extracting PDF: {str(e)}"
PdfError(msg) ==
    << "E","r","r","o","r"," ","e","x","t","r","a","c","t","i","n","g"," ",
       "P","D","F",":"," " >> \o msg

\* f"Error extracting DOCX: {str(e)}"
DocxError(msg) ==
    << "E","r","r","o","r"," ","e","x","t","r","a","c","t","i","n","g"," ",
       "D","O","C","X",":"," " >> \o msg

\* f"Error during OCR: {str(e)}"
ImageOcrError(msg) ==
    << "E","r","r","o","r"," ","d","u","r","i","n","g"," ","O","C","R",":"," " >>
    \o msg

\* The texts of a sequence of library calls that all returned.
TextsOf(outcomes) == [ k \in DOMAIN outcomes |-> outcomes[k].text ]

\* The first call of the sequence that raises.
FirstRaise(outcomes) ==
    CHOOSE k \in DOMAIN outcomes :
        /\ ~ outcomes[k].ok
        /\ \A j \in 1..(k - 1) : outcomes[j].ok

\* extract_text_from_pdf: PdfReader(pdf_file), then page.extract_text()
\* page by page, all inside one try.
extract_text_from_pdf(doc) ==
    IF ~ doc.parse.ok THEN PdfError(doc.parse.text)
    ELSE IF \E k \in DOMAIN doc.pages : ~ doc.pages[k].ok
         THEN PdfError(doc.pages[FirstRaise(doc.pages)].text)
         ELSE JoinParas(TextsOf(doc.pages))

\* extract_text_from_docx: Document(docx_file), then para.text paragraph by
\* paragraph.
extract_text_from_docx(doc) ==
    IF ~ doc.parse.ok THEN DocxError(doc.parse.text)
    ELSE JoinParas(TextsOf(doc.pages))

\* extract_text_from_image on an opened image: scan is what
\* pytesseract.image_to_string does with it.
extract_text_from_image(scan) ==
    IF scan.ok THEN Strip(scan.text) ELSE ImageOcrError(scan.text)

\* The branch taken with every PDF.
UseOcrAlways(pdf_text) == TRUE

\* if is_scanned_pdf(pdf_text):
UseOcr(pdf_text) == is_scanned_pdf(pdf_text, ScanThreshold)

\* text[:n]
Prefix(text, n) == SubSeq(text, 1, IF Len(text) < n THEN Len(text) ELSE n)

\* final_text[:3000]
TranslateLimit == 3000

\* final_text[:5000]
EntityLimit == 5000

\* f"Error: {str(e)}"
ApiError(msg) == << "E", "r", "r", "o", "r", ":", " " >> \o msg

\* GeminiFlash.detect_and_translate: the reply of the API, or the error
\* text of _generate_content, under the key "result".
detect_and_translate(reply) ==
    [ result |-> IF reply.ok THEN reply.text ELSE ApiError(reply.text) ]

\* extract_named_entities: the marker when the spaCy model is not loaded,
\* else the entities the tagger finds in the text (left uninterpreted).
extract_named_entities(text, nlp) ==
    IF nlp = "no" THEN [ error |-> "spaCy model not loaded", of |-> << >> ]
    ELSE [ error |-> "", of |-> text ]

\* len(text.split())
WordCount(text) ==
    Cardinality({ k \in DOMAIN text :
        /\ text[k] \notin Whitespace
        /\ k = 1 \/ text[k - 1] \in Whitespace })

\* analyze_document_structure: the counts that need no tokenizer.
analyze_document_structure(text) ==
    [ total_characters |-> Len(text), total_words |-> WordCount(text) ]

(***************************************************************************)
(* The uploaded documents.                                                 *)
(***************************************************************************)
FillerLen == 42

\* The text of page k of a typed document: 54 characters or more.
FullPage(k) ==
    << "W","H","E","R","E","A","S"," ","p" >> \o IntStr(k) \o << " " >>
    \o [ j \in 1..FillerLen |-> "x" ] \o << ";" >>

\* str(e) of PyPDF2's and python-docx's exceptions: a short one and one of
\* 28 characters or more.
ShortMsg == << "E", "O", "F" >>

LongMsg == << "E","O","F"," ","m","a","r","k","e","r"," ","n","o","t"," ",
              "f","o","u","n","d"," ","i","n"," ","f","i","l","e" >>

\* What page.extract_text() does with page k.
PageOutcomes(k) == { Returns(FullPage(k)), Returns(<< >>), Raises(ShortMsg) }

\* What the OCR engine does with a page image.
PageScanOutcomes ==
    { Returns(<< "W","H","E","R","E","A","S"," ","a",";","\n" >>),
      Raises(EngineMsg) }

MaxPages == 2

\* The n-page PDF files: what the reader and each page do, what the
\* rasterizer and each page image do.
PdfDocs(n) ==
    { [ ext |-> "pdf", parse |-> nat.parse, pages |-> nat.pages,
        raster |-> ocr.raster, scans |-> ocr.scans ] :
        nat \in { [ parse |-> Raises(m), pages |-> << >> ] : m \in { ShortMsg, LongMsg } }
                \cup { [ parse |-> Returns(<< >>), pages |-> ps ] :
                         ps \in { f \in [1..n -> UNION { PageOutcomes(k) : k \in 1..n }] :
                                    \A k \in 1..n : f[k] \in PageOutcomes(k) } },
        ocr \in { [ raster |-> Raises(RasterMsg), scans |-> << >> ] }
                \cup { [ raster |-> Returns(<< >>), scans |-> sc ] :
                         sc \in [1..n -> PageScanOutcomes] } }

\* "WHEREAS the Parties agree to the terms under Section 10 of the Indian
\* Contract Act, 1872;"
WhereasParagraph ==
    << "W", "H", "E", "R", "E", "A", "S", " ", "t", "h", "e", " ", "P",
       "a", "r", "t", "i", "e", "s", " ", "a", "g", "r", "e", "e", " ",
       "t", "o", " ", "t", "h", "e", " ", "t", "e", "r", "m", "s", " ",
       "u", "n", "d", "e", "r", " ", "S", "e", "c", "t", "i", "o", "n",
       " ", "1", "0", " ", "o", "f", " ", "t", "h", "e", " ", "I", "n",
       "d", "i", "a", "n", " ", "C", "o", "n", "t", "r", "a", "c", "t",
       " ", "A", "c", "t", ",", " ", "1", "8", "7", "2", ";" >>

\* The DOCX files: unreadable, or with their paragraphs.
DocxDocs ==
    { [ ext |-> "docx", parse |-> p.parse, pages |-> p.pages,
        raster |-> Returns(<< >>), scans |-> << >> ] :
        p \in { [ parse |-> Raises(LongMsg), pages |-> << >> ],
                [ parse |-> Returns(<< >>), pages |-> << Returns(FullPage(1)) >> ],
                [ parse |-> Returns(<< >>), pages |-> << Returns(WhereasParagraph) >> ],
                [ parse |-> Returns(<< >>),
                  pages |-> << Returns(<< "s", "e", "c", " ", "5" >>), Returns(<< >>) >> ] } }

\* The image files: Image.open raises (parse), or the OCR engine returns
\* or raises.
ImageDocs ==
    { [ ext |-> e, parse |-> p.parse, pages |-> << >>,
        raster |-> Returns(<< >>), scans |-> p.scans ] :
        e \in { "jpg", "jpeg", "png" },
        p \in { [ parse |-> Raises(ShortMsg), scans |-> << >> ] }
              \cup { [ parse |-> Returns(<< >>), scans |-> << sc >> ] :
                       sc \in PageScanOutcomes \cup { Returns(<< " ", "\n" >>) } } }

\* Files of other types: a legacy Word file, a spreadsheet, a program.
OtherDocs ==
    { [ ext |-> e, parse |-> Returns(<< >>), pages |-> << Returns(FullPage(1)) >>,
        raster |-> Returns(<< >>), scans |-> << >> ] : e \in { "doc", "xlsx", "exe" } }

PipeDocs ==
    UNION { PdfDocs(n) : n \in 1..MaxPages } \cup DocxDocs \cup ImageDocs \cup OtherDocs

\* The reply of the translation API: a translation, or an exception.
ApiReplies ==
    { Returns(<< "L","a","n","g","u","a","g","e",":"," ","H","i","n","d","i","\n",
                 "T","r","a","n","s","l","a","t","i","o","n",":"," ",
                 "W","H","E","R","E","A","S"," ","t",";" >>),
      Raises(<< "t", "i", "m", "e", "o", "u", "t" >>) }

(***************************************************************************)
(* utils/gemini_flash.py: the chat of a GeminiFlash instance.              *)
(***************************************************************************)
\* One entry of chat_history.
Entry(role, content) == [ role |-> role, content |-> content ]

\* The constant texts of start_chat, each as one piece.
SystemContent ==
    << "I am JuriBot, an AI legal advisor for Indian law. I'll provide informational guidance while reminding users to consult qualified professionals." >>

UnderstandContent ==
    << "I understand. I am JuriBot, an AI legal advisor for Indian law. I'll provide informational guidance while reminding users to consult qualified professionals." >>

\* initial_message = None
NoMessage == << >>

\* GeminiFlash.__init__: self.chat_history = []
NewInstance == << >>

\* start_chat(initial_message): the chat_history it leaves.
start_chat(initial_message) ==
    << Entry("system", SystemContent) >>
        \o (IF initial_message # NoMessage
            THEN << Entry("user", initial_message),
                    Entry("assistant", UnderstandContent) >>
            ELSE << >>)

\* send_chat_message, up to the request: chat_history with the user entry;
\* it is the messages argument of client.chat.completions.create.
Asked(chat_history, message) ==
    Append(IF chat_history = << >> THEN start_chat(NoMessage) ELSE chat_history,
           Entry("user", message))

\* send_chat_message, after the request: the reply is appended; after an
\* exception the history stays as it was sent.
Answered(chat_history, message, reply) ==
    IF reply.ok
    THEN Append(Asked(chat_history, message), Entry("assistant", reply.text))
    ELSE Asked(chat_history, message)

\* What send_chat_message returns.
ChatReturn(reply) == IF reply.ok THEN reply.text ELSE ApiError(reply.text)

\* The questions of a user and the outcomes of a request.
Questions == { << "q", "1" >>, << "q", "2" >> }

ChatReplies ==
    { Returns(<< "a" >>), Raises(<< "t", "i", "m", "e", "o", "u", "t" >>) }

(***************************************************************************)
(* utils/db_utils.py: the chat_history table of JuriBotDB.                 *)
(***************************************************************************)
\* INSERT INTO chat_history (session_id, role, message, metadata): the id
\* is the next rowid, the timestamp is CURRENT_TIMESTAMP, in whole seconds.
add_chat_message(table, session_id, role, message, now) ==
    Append(table, [ id |-> Len(table) + 1, session_id |-> session_id,
                    timestamp |-> now, role |-> role, message |-> message ])

\* SELECT timestamp, role, message ... : the columns of one row.
Columns(row) ==
    [ timestamp |-> row.timestamp, role |-> row.role, message |-> row.message ]

\* WHERE session_id = ?
OfSession(table, session_id) ==
    SelectSeq(table, LAMBDA row : row.session_id = session_id)

\* ORDER BY timestamp DESC: the orders the engine may produce. Rows with
\* the same timestamp may come in any order.
Orders(rows) ==
    { p \in [ 1..Len(rows) -> 1..Len(rows) ] :
        /\ \A i, j \in 1..Len(rows) : i # j => p[i] # p[j]
        /\ \A i, j \in 1..Len(rows) :
              i < j => rows[p[i]].timestamp >= rows[p[j]].timestamp }

\* LIMIT ?
Limited(n, limit) == IF limit < n THEN limit ELSE n

\* list(reversed(messages))
Reversed(s) == [ k \in 1..Len(s) |-> s[Len(s) + 1 - k] ]

\* get_chat_history(session_id, limit) when the engine orders the rows of
\* the session as p does.
get_chat_history(table, session_id, limit, p) ==
    Reversed([ k \in 1..Limited(Len(OfSession(table, session_id)), limit) |->
                 Columns(OfSession(table, session_id)[p[k]]) ])

\* def get_chat_history(self, session_id, limit: int = 50)
DefaultLimit == 50

(***************************************************************************)
(* utils/text_cleaner.py: truncate_text.                                   *)
(***************************************************************************)
\* s.rfind(ch): the offset of the last ch in s, -1 when there is none.
rfind(s, ch) ==
    IF \E k \in DOMAIN s : s[k] = ch
    THEN (CHOOSE k \in DOMAIN s :
              /\ s[k] = ch
              /\ \A j \in DOMAIN s : s[j] = ch => j <= k) - 1
    ELSE -1

\* A window that is the whole text, however long.
WholeText(text, max_length) == text

\* text[:max_length]
Window(text, max_length) == Prefix(text, max_length)

\* last_period >= max_length * 0.8
FromFourFifths(last_period, max_length) == 5 * last_period >= 4 * max_length

\* last_period > max_length * 0.8.  The product is a float; for the
\* integers a text length can take it compares with an integer as the
\* exact product does.
InLastFifth(last_period, max_length) == 5 * last_period > 4 * max_length

\* if last_period > max_length * 0.8: truncated = truncated[: last_period + 1]
CutAtPeriod(truncated, last_period, max_length) ==
    IF InLastFifth(last_period, max_length)
    THEN Prefix(truncated, last_period + 1)
    ELSE truncated

\* An ellipsis of four periods.
FourPeriods == << ".", ".", ".", "." >>

\* "..."
Ellipsis == << ".", ".", "." >>

\* if add_ellipsis: truncated += "..."
WithEllipsis(truncated, add_ellipsis) ==
    IF add_ellipsis THEN truncated \o Ellipsis ELSE truncated

truncate_text(text, max_length, add_ellipsis) ==
    IF Len(text) <= max_length
    THEN text
    ELSE The({ WithEllipsis(CutAtPeriod(truncated, rfind(truncated, "."), max_length),
                            add_ellipsis) :
               truncated \in { Window(text, max_length) } })

(***************************************************************************)
(* pages/Document_Analyzer.py: the file-upload flow, from the upload to    *)
(* the local analysis.                                                     *)
(***************************************************************************)
Call(fn, arg) == [ fn |-> fn, arg |-> arg ]

\* The calls of fn made so far.
CallsOf(fn) == { k \in DOMAIN pp_calls : pp_calls[k].fn = fn }

Analyzers ==
    { "analyze_document_structure", "extract_named_entities",
      "detect_legal_clauses", "detect_indian_acts", "extract_dates" }

NoDoc ==
    [ ext |-> "", parse |-> Returns(<< >>), pages |-> << >>,
      raster |-> Returns(<< >>), scans |-> << >> ]

NoStats == [ total_characters |-> 0, total_words |-> 0 ]

NoEntities == [ error |-> "", of |-> << >> ]

PipeRest ==
    /\ pp_pdf_text = << >>
    /\ pp_extracted = << >>
    /\ pp_failed = FALSE
    /\ pp_cleaned = << >>
    /\ pp_lang = ""
    /\ pp_final = << >>
    /\ pp_auto_translate = "unread"
    /\ pp_gemini = "unread"
    /\ pp_nlp = "unread"
    /\ pp_translation = "none"
    /\ pp_stats = NoStats
    /\ pp_entities = NoEntities
    /\ pp_clauses = << >>
    /\ pp_acts = EmptyBag
    /\ pp_calls = << >>

PipeIdle == pp_pc = "off" /\ pp_doc = NoDoc /\ pp_input = << >> /\ PipeRest

\* The texts pasted into the text area.
PastedTexts == { << >>, << "s", "e", "c", " ", "5" >>, FullPage(1), WhereasParagraph }

\* if file_type == "File Upload" and uploaded_file: ...
\* elif file_type == "Text Input": ...
PipeInit ==
    /\ \/ pp_pc = "upload" /\ pp_doc \in PipeDocs /\ pp_input = << >>
       \/ pp_pc = "input" /\ pp_doc = NoDoc /\ pp_input \in PastedTexts
    /\ PipeRest

\* if file_extension == "pdf": pdf_text = extract_text_from_pdf(...), and
\* then the OCR path is entered or the native text is taken.
PipeExtractPdf ==
    /\ pp_pc = "upload"
    /\ pp_doc.ext = "pdf"
    /\ pp_pdf_text' = extract_text_from_pdf(pp_doc)
    /\ IF UseOcr(extract_text_from_pdf(pp_doc))
       THEN /\ oc_pc' = "call"
            /\ oc_doc' = [ raster |-> pp_doc.raster, scans |-> pp_doc.scans ]
            /\ pp_pc' = "ocr"
            /\ pp_calls' = pp_calls \o << Call("extract_text_from_pdf", << >>),
                                         Call("extract_text_from_pdf_ocr", << >>) >>
            /\ UNCHANGED << pp_extracted, pp_failed >>
       ELSE /\ pp_extracted' = extract_text_from_pdf(pp_doc)
            /\ pp_failed' = (~ pp_doc.parse.ok \/ \E k \in DOMAIN pp_doc.pages : ~ pp_doc.pages[k].ok)
            /\ pp_pc' = "extracted"
            /\ pp_calls' = Append(pp_calls, Call("extract_text_from_pdf", << >>))
            /\ UNCHANGED << oc_pc, oc_doc >>
    /\ UNCHANGED << pp_doc, pp_cleaned, pp_lang, pp_final, pp_auto_translate,
                    pp_gemini, pp_nlp, pp_translation, pp_stats, pp_entities,
                    pp_clauses, pp_acts,
                    pp_input >>
    /\ UNCHANGED << oc_tmp_path, oc_images, oc_i, oc_full_text, oc_exc, oc_result, fs >>
    /\ UNCHANGED pipeFrame

\* extracted_text = extract_text_from_pdf_ocr(uploaded_file): the call has
\* returned.
PipeOcrDone ==
    /\ pp_pc = "ocr"
    /\ oc_pc = "returned"
    /\ pp_extracted' = oc_result
    /\ pp_failed' = (oc_exc # << >>)
    /\ pp_pc' = "extracted"
    /\ UNCHANGED << pp_doc, pp_pdf_text, pp_cleaned, pp_lang, pp_final,
                    pp_auto_translate, pp_gemini, pp_nlp, pp_translation,
                    pp_stats, pp_entities, pp_clauses, pp_acts,
                    pp_input, pp_calls >>
    /\ UNCHANGED ocrVars
    /\ UNCHANGED pipeFrame

\* elif file_extension == "docx":
PipeExtractDocx ==
    /\ pp_pc = "upload"
    /\ pp_doc.ext = "docx"
    /\ pp_extracted' = extract_text_from_docx(pp_doc)
    /\ pp_failed' = ~ pp_doc.parse.ok
    /\ pp_pc' = "extracted"
    /\ pp_calls' = Append(pp_calls, Call("extract_text_from_docx", << >>))
    /\ UNCHANGED << pp_doc, pp_pdf_text, pp_cleaned, pp_lang, pp_final,
                    pp_auto_translate, pp_gemini, pp_nlp, pp_translation,
                    pp_stats, pp_entities, pp_clauses, pp_acts,
                    pp_input >>
    /\ UNCHANGED ocrVars
    /\ UNCHANGED pipeFrame

\* elif file_extension in ["jpg", "jpeg", "png"]: Image.open is outside any
\* try, an exception of it ends the run of the page script.
PipeExtractImage ==
    /\ pp_pc = "upload"
    /\ pp_doc.ext \in { "jpg", "jpeg", "png" }
    /\ IF pp_doc.parse.ok
       THEN /\ pp_extracted' = extract_text_from_image(pp_doc.scans[1])
            /\ pp_failed' = ~ pp_doc.scans[1].ok
            /\ pp_pc' = "extracted"
            /\ pp_calls' = Append(pp_calls, Call("extract_text_from_image", << >>))
       ELSE /\ pp_pc' = "crashed"
            /\ pp_failed' = TRUE
            /\ UNCHANGED << pp_extracted, pp_calls >>
    /\ UNCHANGED << pp_doc, pp_pdf_text, pp_cleaned, pp_lang, pp_final,
                    pp_auto_translate, pp_gemini, pp_nlp, pp_translation,
                    pp_stats, pp_entities, pp_clauses, pp_acts,
                    pp_input >>
    /\ UNCHANGED ocrVars
    /\ UNCHANGED pipeFrame

\* st.file_uploader(..., type=[...]): the extensions the widget lets
\* through.
UploaderTypes == { "pdf", "docx", "jpg", "jpeg", "png" }

\* A widget without the type list.
AcceptsAll(ext) == TRUE

\* Whether the widget hands the chosen file over to the script.
Accepts(ext) == ext \in UploaderTypes

\* The extensions that the if/elif chain of the flow has a branch for.
FlowTypes == { "pdf", "docx", "jpg", "jpeg", "png" }

\* A file of another type.  The widget turns it away: uploaded_file stays
\* None and the script shows the welcome screen.  Were it handed over, no
\* branch of the if/elif chain would bind extracted_text, and
\* clean_legal_document(extracted_text) would raise NameError.
PipeOtherType ==
    /\ pp_pc = "upload"
    /\ pp_doc.ext \notin FlowTypes
    /\ IF Accepts(pp_doc.ext)
       THEN pp_pc' = "crashed" /\ pp_failed' = TRUE
       ELSE pp_pc' = "rejected" /\ pp_failed' = FALSE
    /\ UNCHANGED << pp_doc, pp_pdf_text, pp_extracted, pp_cleaned, pp_lang,
                    pp_final, pp_auto_translate, pp_gemini, pp_nlp,
                    pp_translation, pp_stats, pp_entities, pp_clauses, pp_acts,
                    pp_input, pp_calls >>
    /\ UNCHANGED ocrVars
    /\ UNCHANGED pipeFrame

\* cleaned_text = clean_legal_document(extracted_text)
PipeClean ==
    /\ pp_pc = "extracted"
    /\ pp_cleaned' = clean_legal_document(pp_extracted)
    /\ pp_calls' = Append(pp_calls, Call("clean_legal_document", pp_extracted))
    /\ pp_pc' = "cleaned"
    /\ UNCHANGED << pp_doc, pp_pdf_text, pp_extracted, pp_failed, pp_lang,
                    pp_final, pp_auto_translate, pp_gemini, pp_nlp,
                    pp_translation, pp_stats, pp_entities, pp_clauses, pp_acts,
                    pp_input >>
    /\ UNCHANGED ocrVars
    /\ UNCHANGED pipeFrame

\* detected_lang = detect_language(cleaned_text): what langdetect says, and
\* "English" when it raises.
PipeDetectLanguage ==
    /\ pp_pc = "cleaned"
    /\ pp_lang' \in { "Hindi", "English" }
    /\ pp_pc' = "detected"
    /\ UNCHANGED << pp_doc, pp_pdf_text, pp_extracted, pp_failed, pp_cleaned,
                    pp_final, pp_auto_translate, pp_gemini, pp_nlp,
                    pp_translation, pp_stats, pp_entities, pp_clauses, pp_acts,
                    pp_input, pp_calls >>
    /\ UNCHANGED ocrVars
    /\ UNCHANGED pipeFrame

\* final_text = edited_text (the text area left as it is), and
\* doc_stats = analyze_document_structure(final_text)
PipeStats ==
    /\ pp_pc = "detected"
    /\ pp_final' = pp_cleaned
    /\ pp_stats' = analyze_document_structure(pp_cleaned)
    /\ pp_calls' = Append(pp_calls, Call("analyze_document_structure", pp_cleaned))
    /\ pp_pc' = "stats"
    /\ UNCHANGED << pp_doc, pp_pdf_text, pp_extracted, pp_failed, pp_cleaned,
                    pp_lang, pp_auto_translate, pp_gemini, pp_nlp,
                    pp_translation, pp_entities, pp_clauses, pp_acts,
                    pp_input >>
    /\ UNCHANGED ocrVars
    /\ UNCHANGED pipeFrame

\* if detected_lang == "Hindi" and auto_translate and gemini: the checkbox
\* and the client are what the session has; the API replies or raises.
PipeTranslate ==
    /\ pp_pc = "stats"
    /\ \E auto \in { "yes", "no" }, client \in { "yes", "no" }, reply \in ApiReplies :
          /\ pp_auto_translate' = auto
          /\ pp_gemini' = client
          /\ IF pp_lang = "Hindi" /\ auto = "yes" /\ client = "yes"
             THEN /\ pp_final' =
                       detect_and_translate(reply).result
                  /\ pp_translation' = IF reply.ok THEN "done" ELSE "failed"
                  /\ pp_calls' = Append(pp_calls,
                         Call("detect_and_translate", Prefix(pp_final, TranslateLimit)))
             ELSE UNCHANGED << pp_final, pp_translation, pp_calls >>
    /\ pp_pc' = "translated"
    /\ UNCHANGED << pp_doc, pp_pdf_text, pp_extracted, pp_failed, pp_cleaned,
                    pp_lang, pp_nlp, pp_stats, pp_entities, pp_clauses, pp_acts,
                    pp_input >>
    /\ UNCHANGED ocrVars
    /\ UNCHANGED pipeFrame

\* entities = extract_named_entities(final_text[:5000]); nlp is what the
\* import of nlp_utils left.
PipeEntities ==
    /\ pp_pc = "translated"
    /\ \E nlp \in { "yes", "no" } :
          /\ pp_nlp' = nlp
          /\ pp_entities' = extract_named_entities(Prefix(pp_final, EntityLimit), nlp)
    /\ pp_calls' = Append(pp_calls,
           Call("extract_named_entities", Prefix(pp_final, EntityLimit)))
    /\ pp_pc' = "entities"
    /\ UNCHANGED << pp_doc, pp_pdf_text, pp_extracted, pp_failed, pp_cleaned,
                    pp_lang, pp_final, pp_auto_translate, pp_gemini,
                    pp_translation, pp_stats, pp_clauses, pp_acts,
                    pp_input >>
    /\ UNCHANGED ocrVars
    /\ UNCHANGED pipeFrame

\* clauses = detect_legal_clauses(final_text)
PipeClauses ==
    /\ pp_pc = "entities"
    /\ pp_clauses' = detect_legal_clauses(pp_final)
    /\ pp_calls' = Append(pp_calls, Call("detect_legal_clauses", pp_final))
    /\ pp_pc' = "clauses"
    /\ UNCHANGED << pp_doc, pp_pdf_text, pp_extracted, pp_failed, pp_cleaned,
                    pp_lang, pp_final, pp_auto_translate, pp_gemini, pp_nlp,
                    pp_translation, pp_stats, pp_entities, pp_acts,
                    pp_input >>
    /\ UNCHANGED ocrVars
    /\ UNCHANGED pipeFrame

\* acts = detect_indian_acts(final_text)
PipeActs ==
    /\ pp_pc = "clauses"
    /\ pp_acts' = detect_indian_acts(pp_final)
    /\ pp_calls' = Append(pp_calls, Call("detect_indian_acts", pp_final))
    /\ pp_pc' = "acts"
    /\ UNCHANGED << pp_doc, pp_pdf_text, pp_extracted, pp_failed, pp_cleaned,
                    pp_lang, pp_final, pp_auto_translate, pp_gemini, pp_nlp,
                    pp_translation, pp_stats, pp_entities, pp_clauses, pp_input >>
    /\ UNCHANGED ocrVars
    /\ UNCHANGED pipeFrame

\* dates = extract_dates(final_text)
PipeDates ==
    /\ pp_pc = "acts"
    /\ pp_calls' = Append(pp_calls, Call("extract_dates", pp_final))
    /\ pp_pc' = "analyzed"
    /\ UNCHANGED << pp_doc, pp_pdf_text, pp_extracted, pp_failed, pp_cleaned,
                    pp_lang, pp_final, pp_auto_translate, pp_gemini, pp_nlp,
                    pp_translation, pp_stats, pp_entities, pp_clauses, pp_acts,
                    pp_input >>
    /\ UNCHANGED ocrVars
    /\ UNCHANGED pipeFrame

\* truncate_text(final_text, max_length=15000)
AnalysisLimit == 15000

\* if gemini is not None and the "Analyze" button is pressed:
\* analysis_text = truncate_text(final_text, max_length=15000),
\* analysis = gemini.analyze_legal_document(analysis_text, detected_lang),
\* and the document and the analysis are stored.  The text is not among
\* what is stored.
PipeAnalyze ==
    /\ pp_pc = "analyzed"
    /\ pp_gemini = "yes"
    /\ pp_calls' = pp_calls \o
           << Call("truncate_text", pp_final),
              Call("analyze_legal_document", truncate_text(pp_final, AnalysisLimit, TRUE)),
              Call("add_document", << >>),
              Call("add_analysis_result", << >>) >>
    /\ pp_pc' = "reported"
    /\ UNCHANGED << pp_doc, pp_pdf_text, pp_extracted, pp_failed, pp_cleaned,
                    pp_lang, pp_final, pp_auto_translate, pp_gemini, pp_nlp,
                    pp_translation, pp_stats, pp_entities, pp_clauses, pp_acts,
                    pp_input >>
    /\ UNCHANGED ocrVars
    /\ UNCHANGED pipeFrame

(***************************************************************************)
(* pages/Document_Analyzer.py: the text-input flow.                        *)
(***************************************************************************)
\* len(input_text) > 50
MinInputLen == 50

\* cleaned_text[:3000]
QuickEntityLimit == 3000

\* if input_text and len(input_text) > 50:
\*     cleaned_text = clean_legal_document(input_text)
\* A shorter text leaves the page as it is.
InputClean ==
    /\ pp_pc = "input"
    /\ IF Len(pp_input) > MinInputLen
       THEN /\ pp_cleaned' = clean_legal_document(pp_input)
            /\ pp_calls' = Append(pp_calls, Call("clean_legal_document", pp_input))
            /\ pp_pc' = "input_cleaned"
       ELSE /\ pp_pc' = "input_ignored"
            /\ UNCHANGED << pp_cleaned, pp_calls >>
    /\ UNCHANGED << pp_doc, pp_pdf_text, pp_extracted, pp_failed, pp_lang,
                    pp_final, pp_auto_translate, pp_gemini, pp_nlp,
                    pp_translation, pp_stats, pp_entities, pp_clauses, pp_acts,
                    pp_input >>
    /\ UNCHANGED ocrVars
    /\ UNCHANGED pipeFrame

\* detected_lang = detect_language(cleaned_text)
InputDetectLanguage ==
    /\ pp_pc = "input_cleaned"
    /\ pp_lang' \in { "Hindi", "English" }
    /\ pp_pc' = "input_detected"
    /\ UNCHANGED << pp_doc, pp_pdf_text, pp_extracted, pp_failed, pp_cleaned,
                    pp_final, pp_auto_translate, pp_gemini, pp_nlp,
                    pp_translation, pp_stats, pp_entities, pp_clauses, pp_acts,
                    pp_input, pp_calls >>
    /\ UNCHANGED ocrVars
    /\ UNCHANGED pipeFrame

\* entities = extract_named_entities(cleaned_text[:3000])
\* clauses = detect_legal_clauses(cleaned_text)
\* acts = detect_indian_acts(cleaned_text)
InputQuickAnalysis ==
    /\ pp_pc = "input_detected"
    /\ \E nlp \in { "yes", "no" } :
          /\ pp_nlp' = nlp
          /\ pp_entities' =
                 extract_named_entities(Prefix(pp_cleaned, QuickEntityLimit), nlp)
    /\ pp_clauses' = detect_legal_clauses(pp_cleaned)
    /\ pp_acts' = detect_indian_acts(pp_cleaned)
    /\ pp_calls' = pp_calls \o
           << Call("extract_named_entities", Prefix(pp_cleaned, QuickEntityLimit)),
              Call("detect_legal_clauses", pp_cleaned),
              Call("detect_indian_acts", pp_cleaned) >>
    /\ pp_pc' = "input_analyzed"
    /\ UNCHANGED << pp_doc, pp_pdf_text, pp_extracted, pp_failed, pp_cleaned,
                    pp_lang, pp_final, pp_auto_translate, pp_gemini,
                    pp_translation, pp_stats, pp_input >>
    /\ UNCHANGED ocrVars
    /\ UNCHANGED pipeFrame

\* if gemini and st.button("Analyze with AI"):
\*     analysis = gemini.analyze_legal_document(cleaned_text, detected_lang)
InputAnalyze ==
    /\ pp_pc = "input_analyzed"
    /\ \E client \in { "yes", "no" } :
          /\ pp_gemini' = client
          /\ IF client = "yes"
             THEN /\ pp_calls' = Append(pp_calls,
                         Call("analyze_legal_document", pp_cleaned))
                  /\ pp_pc' = "input_reported"
             ELSE /\ pp_pc' = "input_shown"
                  /\ UNCHANGED pp_calls
    /\ UNCHANGED << pp_doc, pp_pdf_text, pp_extracted, pp_failed, pp_cleaned,
                    pp_lang, pp_final, pp_auto_translate, pp_nlp,
                    pp_translation, pp_stats, pp_entities, pp_clauses, pp_acts,
                    pp_input >>
    /\ UNCHANGED ocrVars
    /\ UNCHANGED pipeFrame

PipeNext ==
    \/ PipeExtractPdf
    \/ PipeOtherType
    \/ PipeOcrDone
    \/ PipeExtractDocx
    \/ PipeExtractImage
    \/ PipeClean
    \/ PipeDetectLanguage
    \/ PipeStats
    \/ PipeTranslate
    \/ PipeEntities
    \/ PipeClauses
    \/ PipeActs
    \/ PipeDates
    \/ PipeAnalyze
    \/ InputClean
    \/ InputDetectLanguage
    \/ InputQuickAnalysis
    \/ InputAnalyze
    \/ OcrNext

(***************************************************************************)
(* A call of truncate_text on its own.                                     *)
(***************************************************************************)
\* A text of n characters with periods at the offsets of periods.
Sentences(n, periods) == [ k \in 1..n |-> IF (k - 1) \in periods THEN "." ELSE "a" ]

MaxTruncLen == 12

\* Sets of at most two offsets below n.
PeriodSets(n) ==
    { {} } \cup { { p, q } : p \in 0..(n - 1), q \in 0..(n - 1) }

ShortCalls ==
    { [text |-> Sentences(n, ps), max_length |-> m] :
        n \in 0..MaxTruncLen, ps \in PeriodSets(MaxTruncLen), m \in 0..MaxTruncLen }

\* A text of LongLen characters with a period at offset LongPeriod, cut at
\* LongMax; some of the texts have a second period inside the window.
LongLen == 10000

LongPeriod == 8050

LongMax == 8000

LongPeriodSets ==
    { { LongPeriod } } \cup
    { { LongPeriod, p } :
        p \in { LongMax - 1, (4 * LongMax) \div 5, (4 * LongMax) \div 5 + 1 } }

LongCalls ==
    { [text |-> Sentences(LongLen, ps), max_length |-> LongMax] : ps \in LongPeriodSets }

TruncIdle ==
    /\ tr_pc = "off"
    /\ tr_text = << >>
    /\ tr_max_length = 0
    /\ tr_add_ellipsis = FALSE
    /\ tr_result = << >>

TruncInit ==
    /\ tr_pc = "call"
    /\ \E c \in ShortCalls \cup LongCalls :
          /\ tr_text = c.text
          /\ tr_max_length = c.max_length
    /\ tr_add_ellipsis \in BOOLEAN
    /\ tr_result = << >>

\* result = truncate_text(text, max_length, add_ellipsis)
TruncCall ==
    /\ tr_pc = "call"
    /\ tr_result' = truncate_text(tr_text, tr_max_length, tr_add_ellipsis)
    /\ tr_pc' = "done"
    /\ UNCHANGED << tr_text, tr_max_length, tr_add_ellipsis >>
    /\ UNCHANGED truncFrame

TruncNext == TruncCall

(***************************************************************************)
(* A call of clean_ocr_text on its own.                                    *)
(***************************************************************************)
\* The characters OCR output is made of here: a letter, whitespace, and the
\* confusions the repair step is about.
OcrChars ==
    { "x", " ", "\n", "\t", "|", "FW0", "FW1", "BACKTICK", "DQUOTE", "LSQUOTE",
      "RSQUOTE", "LDQUOTE", "RDQUOTE", "EMDASH", "ENDASH" }

MaxOcrLen == 3

OcrTexts == UNION { [ 1..n -> OcrChars ] : n \in 0..MaxOcrLen }

RepairIdle ==
    /\ co_pc = "off"
    /\ co_text = << >>
    /\ co_result = << >>

RepairInit ==
    /\ co_pc = "call"
    /\ co_text \in OcrTexts
    /\ co_result = << >>

\* result = clean_ocr_text(text)
RepairCall ==
    /\ co_pc = "call"
    /\ co_result' = clean_ocr_text(co_text)
    /\ co_pc' = "done"
    /\ UNCHANGED co_text
    /\ UNCHANGED repairFrame

RepairNext == RepairCall

(***************************************************************************)
(* The chat_history table on its own: messages are stored, time passes,    *)
(* the history of a session is read.                                       *)
(***************************************************************************)
MaxRows == 4

MaxClock == 2

Sessions == { 1, 2 }

Limits == { 1, 2, DefaultLimit }

\* The messages stored: a question of the user, a reply of the assistant.
StoredMessages ==
    { [ role |-> "user", message |-> << "q", "1" >> ],
      [ role |-> "assistant", message |-> << "a" >> ] }

NoQuery == [ session_id |-> 0, limit |-> 0 ]

HistInit ==
    /\ db_chat = << >>
    /\ db_now = 0
    /\ db_query = NoQuery
    /\ db_messages = << >>

HistIdle == HistInit

DbAddChatMessage ==
    /\ Len(db_chat) < MaxRows
    /\ \E session_id \in Sessions, m \in StoredMessages :
          db_chat' = add_chat_message(db_chat, session_id, m.role, m.message, db_now)
    /\ UNCHANGED << db_now, db_query, db_messages >>
    /\ UNCHANGED histFrame

\* A second passes.
DbTick ==
    /\ db_now < MaxClock
    /\ db_now' = db_now + 1
    /\ UNCHANGED << db_chat, db_query, db_messages >>
    /\ UNCHANGED histFrame

DbGetChatHistory ==
    /\ \E session_id \in Sessions, limit \in Limits :
          /\ db_query' = [ session_id |-> session_id, limit |-> limit ]
          /\ \E p \in Orders(OfSession(db_chat, session_id)) :
                db_messages' = get_chat_history(db_chat, session_id, limit, p)
    /\ UNCHANGED << db_chat, db_now >>
    /\ UNCHANGED histFrame

HistNext ==
    \/ DbAddChatMessage
    \/ DbTick
    \/ DbGetChatHistory

(***************************************************************************)
(* pages/Legal_Chatbot.py: the script runs of one browser session.         *)
(***************************************************************************)
MaxQuestions == 3

MaxClears == 2

\* The text the page gives to start_chat.
PageInitial ==
    << "You are JuriBot, an AI legal advisor for Indian law. Provide clear, helpful responses. Always remind users this is informational only." >>

\* The top of the script: gemini = get_gemini_client() is a new instance;
\* start_chat is called on it unless st.session_state has "gemini_chat".
RunStart(gemini_chat) ==
    IF gemini_chat THEN NewInstance ELSE start_chat(PageInitial)

\* "session_id" not in st.session_state
NoSession == 0

ChatInit ==
    /\ ch_pc = "rerun"
    /\ ch_chat_history = << >>
    /\ ch_session_id = NoSession
    /\ ch_gemini_chat = FALSE
    /\ ch_gemini = << >>
    /\ ch_requests = << >>
    /\ ch_uuids = 0

ChatIdle ==
    /\ ch_pc = "off"
    /\ ch_chat_history = << >>
    /\ ch_session_id = NoSession
    /\ ch_gemini_chat = FALSE
    /\ ch_gemini = << >>
    /\ ch_requests = << >>
    /\ ch_uuids = 0

\* A run of the script with no question and no button: the first run of
\* the session, the run after st.rerun(), a run for another widget.
ChatLoad ==
    /\ ch_pc \in { "rerun", "idle" }
    /\ ch_pc' = "idle"
    /\ IF ch_session_id = NoSession
       THEN ch_session_id' = ch_uuids + 1 /\ ch_uuids' = ch_uuids + 1
       ELSE UNCHANGED << ch_session_id, ch_uuids >>
    /\ ch_gemini' = RunStart(ch_gemini_chat)
    /\ ch_gemini_chat' = TRUE
    /\ UNCHANGED << ch_chat_history, ch_requests >>
    /\ UNCHANGED histVars
    /\ UNCHANGED chatFrame

\* A run with a question, typed or taken from a topic button: the question
\* and the response go to st.session_state.chat_history and to the
\* database, then st.rerun().
ChatAsk ==
    /\ ch_pc = "idle"
    /\ Len(ch_requests) < MaxQuestions
    /\ \E user_input \in Questions, reply \in ChatReplies :
          /\ ch_requests' =
                Append(ch_requests,
                       [ session_id |-> ch_session_id,
                         earlier |-> ch_chat_history,
                         messages |-> Asked(RunStart(ch_gemini_chat), user_input) ])
          /\ ch_gemini' = Answered(RunStart(ch_gemini_chat), user_input, reply)
          /\ ch_chat_history' =
                ch_chat_history \o << Entry("user", user_input),
                                      Entry("assistant", ChatReturn(reply)) >>
          /\ \E t1 \in { db_now, db_now + 1 } : \E t2 \in { t1, t1 + 1 } :
                /\ db_chat' =
                      add_chat_message(
                          add_chat_message(db_chat, ch_session_id, "user", user_input, t1),
                          ch_session_id, "assistant", ChatReturn(reply), t2)
                /\ db_now' = t2
    /\ ch_gemini_chat' = TRUE
    /\ ch_pc' = "rerun"
    /\ UNCHANGED << ch_session_id, ch_uuids, db_query, db_messages >>
    /\ UNCHANGED chatFrame

\* A run with the Clear Chat History button: a new session, start_chat on
\* the instance of this run, then st.rerun().
ChatClear ==
    /\ ch_pc = "idle"
    /\ ch_uuids < MaxClears
    /\ ch_chat_history' = << >>
    /\ ch_session_id' = ch_uuids + 1
    /\ ch_uuids' = ch_uuids + 1
    /\ ch_gemini' = start_chat(PageInitial)
    /\ ch_gemini_chat' = TRUE
    /\ ch_pc' = "rerun"
    /\ UNCHANGED ch_requests
    /\ UNCHANGED histVars
    /\ UNCHANGED chatFrame

ChatNext ==
    \/ ChatLoad
    \/ ChatAsk
    \/ ChatClear

(***************************************************************************)
(* One GeminiFlash instance: calls of start_chat and send_chat_message.    *)
(***************************************************************************)
MaxChatCalls == 3

\* "nothing returned yet"
NoReturn == << >>

GmInit ==
    /\ gm_chat_history = NewInstance
    /\ gm_requests = << >>
    /\ gm_returned = NoReturn
    /\ gm_calls = 0

GmIdle == GmInit

GmStartChat ==
    /\ gm_calls < MaxChatCalls
    /\ \E initial_message \in { NoMessage, PageInitial } :
          gm_chat_history' = start_chat(initial_message)
    /\ gm_calls' = gm_calls + 1
    /\ UNCHANGED << gm_requests, gm_returned >>
    /\ UNCHANGED gmFrame

GmSendChatMessage ==
    /\ gm_calls < MaxChatCalls
    /\ \E message \in Questions, reply \in ChatReplies :
          /\ gm_requests' = Append(gm_requests, Asked(gm_chat_history, message))
          /\ gm_chat_history' = Answered(gm_chat_history, message, reply)
          /\ gm_returned' = ChatReturn(reply)
    /\ gm_calls' = gm_calls + 1
    /\ UNCHANGED gmFrame

GmNext ==
    \/ GmStartChat
    \/ GmSendChatMessage

(***************************************************************************)
(* utils/ocr_utils.py: two calls of extract_text_from_pdf_ocr, one on each *)
(* of two threads, over one directory of temporary files.                  *)
(***************************************************************************)
Threads == { 1, 2 }

MaxConcPages == 2

\* What the OCR engine does with one page image.
ConcOutcomes ==
    { Returns(<< "s", "c", "a", "n", "\n" >>),
      Returns(<< "t", "e", "x", "t" >>),
      Raises(EngineMsg) }

\* The PDF files given to the two calls.
ConcDocs ==
    { [ raster |-> Raises(RasterMsg), scans |-> << >> ] }
    \cup UNION { { [ raster |-> Returns(<< >>), scans |-> sc ] :
                     sc \in [1..n -> ConcOutcomes] } : n \in 0..MaxConcPages }

\* extract_text_from_pdf_ocr(pdf_file) run alone: its return value.
extract_text_from_pdf_ocr(doc) ==
    IF ~ doc.raster.ok THEN PdfOcrError(doc.raster.text)
    ELSE IF \E k \in DOMAIN doc.scans : ~ doc.scans[k].ok
         THEN PdfOcrError(doc.scans[FirstRaise(doc.scans)].text)
         ELSE JoinParas([ k \in DOMAIN doc.scans |->
                            PageBlock(k - 1, doc.scans[k].text) ])

\* str(e) of FileNotFoundError.
MissingMsg == << "N", "o", " ", "s", "u", "c", "h", " ", "f", "i", "l", "e" >>

\* A path or a thread of 0 stands for none.
ConcIdle ==
    /\ cc_pc = [ t \in Threads |-> "off" ]
    /\ cc_doc = [ t \in Threads |-> [ raster |-> Returns(<< >>), scans |-> << >> ] ]
    /\ cc_tmp_path = [ t \in Threads |-> 0 ]
    /\ cc_images = [ t \in Threads |-> << >> ]
    /\ cc_i = [ t \in Threads |-> 0 ]
    /\ cc_full_text = [ t \in Threads |-> << >> ]
    /\ cc_exc = [ t \in Threads |-> << >> ]
    /\ cc_result = [ t \in Threads |-> << >> ]
    /\ cc_read = [ t \in Threads |-> 0 ]
    /\ cc_unlinked = [ t \in Threads |-> 0 ]
    /\ cc_fs = << >>

ConcInit ==
    /\ cc_pc = [ t \in Threads |-> "call" ]
    /\ cc_doc \in [ Threads -> ConcDocs ]
    /\ cc_tmp_path = [ t \in Threads |-> 0 ]
    /\ cc_images = [ t \in Threads |-> << >> ]
    /\ cc_i = [ t \in Threads |-> 0 ]
    /\ cc_full_text = [ t \in Threads |-> << >> ]
    /\ cc_exc = [ t \in Threads |-> << >> ]
    /\ cc_result = [ t \in Threads |-> << >> ]
    /\ cc_read = [ t \in Threads |-> 0 ]
    /\ cc_unlinked = [ t \in Threads |-> 0 ]
    /\ cc_fs = << >>

\* The file at a path is written, created if it is not there.
Written(files, path, t, content) ==
    [ q \in DOMAIN files \cup { path } |->
        IF q = path THEN [ writer |-> t, content |-> content ] ELSE files[q] ]

\* os.unlink(path)
Unlinked(files, path) == [ q \in DOMAIN files \ { path } |-> files[q] ]

\* with tempfile.NamedTemporaryFile(delete=False, suffix=".pdf") as tmp_file:
\*     tmp_file.write(pdf_file.read()); tmp_path = tmp_file.name
ConcSave(t) ==
    /\ cc_pc[t] = "call"
    /\ cc_tmp_path' = [ cc_tmp_path EXCEPT ![t] = FreshPath(DOMAIN cc_fs) ]
    /\ cc_fs' = Written(cc_fs, FreshPath(DOMAIN cc_fs), t, cc_doc[t])
    /\ cc_pc' = [ cc_pc EXCEPT ![t] = "convert" ]
    /\ UNCHANGED << cc_doc, cc_images, cc_i, cc_full_text, cc_exc, cc_result,
                    cc_read, cc_unlinked >>
    /\ UNCHANGED concFrame

\* images = convert_from_path(tmp_path): the file at tmp_path is rasterized.
ConcConvert(t) ==
    /\ cc_pc[t] = "convert"
    /\ IF cc_tmp_path[t] \notin DOMAIN cc_fs
       THEN /\ cc_exc' = [ cc_exc EXCEPT ![t] = MissingMsg ]
            /\ cc_pc' = [ cc_pc EXCEPT ![t] = "except" ]
            /\ UNCHANGED << cc_images, cc_read >>
       ELSE /\ cc_read' = [ cc_read EXCEPT ![t] = cc_fs[cc_tmp_path[t]].writer ]
            /\ IF cc_fs[cc_tmp_path[t]].content.raster.ok
               THEN /\ cc_images' =
                         [ cc_images EXCEPT ![t] = cc_fs[cc_tmp_path[t]].content.scans ]
                    /\ cc_pc' = [ cc_pc EXCEPT ![t] = "pages" ]
                    /\ UNCHANGED cc_exc
               ELSE /\ cc_exc' =
                         [ cc_exc EXCEPT ![t] = cc_fs[cc_tmp_path[t]].content.raster.text ]
                    /\ cc_pc' = [ cc_pc EXCEPT ![t] = "except" ]
                    /\ UNCHANGED cc_images
    /\ UNCHANGED << cc_doc, cc_tmp_path, cc_i, cc_full_text, cc_result,
                    cc_unlinked, cc_fs >>
    /\ UNCHANGED concFrame

\* for i, image in enumerate(images): one turn of the loop.
ConcPage(t) ==
    /\ cc_pc[t] = "pages"
    /\ cc_i[t] < Len(cc_images[t])
    /\ IF cc_images[t][cc_i[t] + 1].ok
       THEN /\ cc_full_text' =
                 [ cc_full_text EXCEPT ![t] =
                     Append(@, PageBlock(cc_i[t], cc_images[t][cc_i[t] + 1].text)) ]
            /\ cc_i' = [ cc_i EXCEPT ![t] = @ + 1 ]
            /\ UNCHANGED << cc_pc, cc_exc >>
       ELSE /\ cc_exc' = [ cc_exc EXCEPT ![t] = cc_images[t][cc_i[t] + 1].text ]
            /\ cc_pc' = [ cc_pc EXCEPT ![t] = "except" ]
            /\ UNCHANGED << cc_i, cc_full_text >>
    /\ UNCHANGED << cc_doc, cc_tmp_path, cc_images, cc_result, cc_read,
                    cc_unlinked, cc_fs >>
    /\ UNCHANGED concFrame

\* os.unlink(tmp_path), after the loop.
ConcUnlink(t) ==
    /\ cc_pc[t] = "pages"
    /\ cc_i[t] = Len(cc_images[t])
    /\ IF cc_tmp_path[t] \notin DOMAIN cc_fs
       THEN /\ cc_exc' = [ cc_exc EXCEPT ![t] = MissingMsg ]
            /\ cc_pc' = [ cc_pc EXCEPT ![t] = "except" ]
            /\ UNCHANGED << cc_unlinked, cc_fs >>
       ELSE /\ cc_unlinked' =
                 [ cc_unlinked EXCEPT ![t] = cc_fs[cc_tmp_path[t]].writer ]
            /\ cc_fs' = Unlinked(cc_fs, cc_tmp_path[t])
            /\ cc_pc' = [ cc_pc EXCEPT ![t] = "join" ]
            /\ UNCHANGED cc_exc
    /\ UNCHANGED << cc_doc, cc_tmp_path, cc_images, cc_i, cc_full_text,
                    cc_result, cc_read >>
    /\ UNCHANGED concFrame

\* return "\n\n".join(full_text)
ConcReturn(t) ==
    /\ cc_pc[t] = "join"
    /\ cc_result' = [ cc_result EXCEPT ![t] = JoinParas(cc_full_text[t]) ]
    /\ cc_pc' = [ cc_pc EXCEPT ![t] = "returned" ]
    /\ UNCHANGED << cc_doc, cc_tmp_path, cc_images, cc_i, cc_full_text, cc_exc,
                    cc_read, cc_unlinked, cc_fs >>
    /\ UNCHANGED concFrame

\* except Exception as e: return f"Error during PDF OCR: {str(e)}"
ConcExcept(t) ==
    /\ cc_pc[t] = "except"
    /\ cc_result' = [ cc_result EXCEPT ![t] = PdfOcrError(cc_exc[t]) ]
    /\ cc_pc' = [ cc_pc EXCEPT ![t] = "returned" ]
    /\ UNCHANGED << cc_doc, cc_tmp_path, cc_images, cc_i, cc_full_text, cc_exc,
                    cc_read, cc_unlinked, cc_fs >>
    /\ UNCHANGED concFrame

ConcNext ==
    \/ \E t \in Threads : ConcSave(t)
    \/ \E t \in Threads : ConcConvert(t)
    \/ \E t \in Threads : ConcPage(t)
    \/ \E t \in Threads : ConcUnlink(t)
    \/ \E t \in Threads : ConcReturn(t)
    \/ \E t \in Threads : ConcExcept(t)

(***************************************************************************)
(* standardize_legal_terms on its own, and on its own result.              *)
(***************************************************************************)
\* The pieces the texts are made of: every abbreviation (IPC in lower
\* case), a period, a space.
TermTokens ==
    { << "v", "s" >>, << "V", "/", "s" >>, << "s", "e", "c" >>, << "a", "r", "t" >>,
      << "p", "a", "r", "a" >>, << "c", "l" >>, << "H", "o", "n", "'", "b", "l", "e" >>,
      << "i", "p", "c" >>, << "C", "r", "P", "C" >>, << "C", "P", "C" >>,
      << "." >>, << " " >> }

MaxTermTokens == 3

TermInputs ==
    UNION { { Flatten(ts) : ts \in [ 1..n -> TermTokens ] } : n \in 0..MaxTermTokens }

\* The abbreviation patterns that match somewhere in the text.
MatchedIn(text) ==
    { k \in DOMAIN Abbreviations :
        Search(Abbreviations[k].p, text, 0, IgnoreCase).st # -1 }

TermIdle ==
    /\ st_pc = "off"
    /\ st_text = << >>
    /\ st_once = << >>
    /\ st_matched = {}
    /\ st_twice = << >>

TermInit ==
    /\ st_pc = "raw"
    /\ st_text \in TermInputs
    /\ st_once = << >>
    /\ st_matched = {}
    /\ st_twice = << >>

\* once = standardize_legal_terms(text)
TermFirst ==
    /\ st_pc = "raw"
    /\ st_once' = standardize_legal_terms(st_text)
    /\ st_pc' = "once"
    /\ UNCHANGED << st_text, st_matched, st_twice >>
    /\ UNCHANGED termFrame

\* standardize_legal_terms(once)
TermAgain ==
    /\ st_pc = "once"
    /\ st_matched' = MatchedIn(st_once)
    /\ st_twice' = standardize_legal_terms(st_once)
    /\ st_pc' = "twice"
    /\ UNCHANGED << st_text, st_once >>
    /\ UNCHANGED termFrame

TermNext == TermFirst \/ TermAgain

(***************************************************************************)
(* A call of remove_headers_footers on its own.                            *)
(***************************************************************************)
MaxHeaderLines == 5

\* A line of n characters.
LineOfLen(c, n) == [ k \in 1..n |-> c ]

\* The lengths about the two limits of the length test.
HeaderLens ==
    { HeaderMinLen, HeaderMinLen + 1, HeaderMaxLen - 1, HeaderMaxLen }

\* The lines of a text whose repeated line is n characters long: that
\* line, the same with blanks about it, another line as long.
LinesAbout(n) ==
    { LineOfLen("h", n),
      << " " >> \o LineOfLen("h", n) \o << "\t" >>,
      LineOfLen("g", n) }

HeaderInputs ==
    UNION { UNION { [ 1..k -> LinesAbout(n) ] : k \in 1..MaxHeaderLines } :
            n \in HeaderLens }

HeaderIdle ==
    /\ hf_pc = "off"
    /\ hf_lines = << >>
    /\ hf_result = << >>

HeaderInit ==
    /\ hf_pc = "call"
    /\ hf_lines \in HeaderInputs
    /\ hf_result = << >>

\* remove_headers_footers(text), the text being the lines joined by "\n".
HeaderCall ==
    /\ hf_pc = "call"
    /\ hf_result' = remove_headers_footers(JoinLines(hf_lines))
    /\ hf_pc' = "returned"
    /\ UNCHANGED hf_lines
    /\ UNCHANGED headerFrame

HeaderNext == HeaderCall

(***************************************************************************)
(* utils/db_utils.py: the documents table of JuriBotDB.                    *)
(***************************************************************************)
\* hashlib.sha256(file_content).hexdigest(): taken as free of collisions,
\* the digest is the content under a tag.
Sha256(file_content) == << "sha256:" >> \o file_content

\* A table without the UNIQUE constraint admits every row.
AdmitsAny(table, file_hash) == TRUE

\* file_hash TEXT UNIQUE: whether the table admits a row with this hash.
Admits(table, file_hash) ==
    \A k \in DOMAIN table : table[k].file_hash # file_hash

\* SELECT id FROM documents WHERE file_hash = ?
IdOfHash(table, file_hash) ==
    table[CHOOSE k \in DOMAIN table : table[k].file_hash = file_hash].id

\* add_document: the table it leaves.  The INSERT takes the next rowid;
\* when it fails with IntegrityError nothing is written.
add_document(table, filename, file_content, file_type, text_length) ==
    IF Admits(table, Sha256(file_content))
    THEN Append(table, [ id |-> Len(table) + 1, filename |-> filename,
                         file_hash |-> Sha256(file_content),
                         file_type |-> file_type, text_length |-> text_length ])
    ELSE table

\* add_document: the id it returns, cursor.lastrowid or the id selected.
DocumentId(table, file_content) ==
    IF Admits(table, Sha256(file_content))
    THEN Len(table) + 1
    ELSE IdOfHash(table, Sha256(file_content))

(***************************************************************************)
(* Calls of add_document on one database.                                  *)
(***************************************************************************)
MaxDocCalls == 3

\* The files stored: two names, three contents, two text lengths.
DocCalls ==
    [ filename : { "a.pdf", "b.pdf" },
      file_content : { << "x" >>, << "y" >>, << "x", "y" >> },
      file_type : { "pdf" },
      text_length : { 3, 5 } ]

NoCall ==
    [ filename |-> "", file_content |-> << >>, file_type |-> "", text_length |-> 0 ]

DocInit ==
    /\ doc_rows = << >>
    /\ doc_n = 0
    /\ doc_call = NoCall
    /\ doc_before = << >>
    /\ doc_returned = 0

DocIdle == DocInit

DbAddDocument ==
    /\ doc_n < MaxDocCalls
    /\ \E c \in DocCalls :
          /\ doc_call' = c
          /\ doc_rows' = add_document(doc_rows, c.filename, c.file_content,
                                      c.file_type, c.text_length)
          /\ doc_returned' = DocumentId(doc_rows, c.file_content)
    /\ doc_before' = doc_rows
    /\ doc_n' = doc_n + 1
    /\ UNCHANGED docFrame

DocNext == DbAddDocument

(***************************************************************************)
(* Specifications: one per component, the others idle.                     *)
(***************************************************************************)
InitClean == CleanInit /\ ScanIdle /\ ClauseIdle /\ OcrIdle /\ PipeIdle /\ ActIdle /\ TruncIdle /\ RepairIdle /\ HistIdle /\ ChatIdle /\ GmIdle /\ ConcIdle /\ TermIdle /\ HeaderIdle /\ DocIdle

SpecClean == InitClean /\ [][CleanNext]_vars

InitScan == ScanInit /\ CleanIdle /\ ClauseIdle /\ OcrIdle /\ PipeIdle /\ ActIdle /\ TruncIdle /\ RepairIdle /\ HistIdle /\ ChatIdle /\ GmIdle /\ ConcIdle /\ TermIdle /\ HeaderIdle /\ DocIdle

SpecScan == InitScan /\ [][ScanNext]_vars

InitClauses == ClauseInit /\ CleanIdle /\ ScanIdle /\ OcrIdle /\ PipeIdle /\ ActIdle /\ TruncIdle /\ RepairIdle /\ HistIdle /\ ChatIdle /\ GmIdle /\ ConcIdle /\ TermIdle /\ HeaderIdle /\ DocIdle

SpecClauses == InitClauses /\ [][ClauseNext]_vars

InitOcr == OcrInit /\ CleanIdle /\ ScanIdle /\ ClauseIdle /\ PipeIdle /\ ActIdle /\ TruncIdle /\ RepairIdle /\ HistIdle /\ ChatIdle /\ GmIdle /\ ConcIdle /\ TermIdle /\ HeaderIdle /\ DocIdle

SpecOcr == InitOcr /\ [][OcrNext]_vars

InitPipe == PipeInit /\ CleanIdle /\ ScanIdle /\ ClauseIdle /\ OcrIdle /\ ActIdle /\ TruncIdle /\ RepairIdle /\ HistIdle /\ ChatIdle /\ GmIdle /\ ConcIdle /\ TermIdle /\ HeaderIdle /\ DocIdle

SpecPipe == InitPipe /\ [][PipeNext]_vars

InitActs == ActInit /\ ScanIdle /\ ClauseIdle /\ OcrIdle /\ PipeIdle /\ CleanIdle /\ TruncIdle /\ RepairIdle /\ HistIdle /\ ChatIdle /\ GmIdle /\ ConcIdle /\ TermIdle /\ HeaderIdle /\ DocIdle

SpecActs == InitActs /\ [][ActNext]_vars

InitTrunc == TruncInit /\ ScanIdle /\ ClauseIdle /\ OcrIdle /\ PipeIdle /\ ActIdle /\ CleanIdle /\ RepairIdle /\ HistIdle /\ ChatIdle /\ GmIdle /\ ConcIdle /\ TermIdle /\ HeaderIdle /\ DocIdle

SpecTrunc == InitTrunc /\ [][TruncNext]_vars

InitRepair == RepairInit /\ ScanIdle /\ ClauseIdle /\ OcrIdle /\ PipeIdle /\ ActIdle /\ TruncIdle /\ CleanIdle /\ HistIdle /\ ChatIdle /\ GmIdle /\ ConcIdle /\ TermIdle /\ HeaderIdle /\ DocIdle

SpecRepair == InitRepair /\ [][RepairNext]_vars

InitHist == HistInit /\ ScanIdle /\ ClauseIdle /\ OcrIdle /\ PipeIdle /\ ActIdle /\ TruncIdle /\ RepairIdle /\ CleanIdle /\ ChatIdle /\ GmIdle /\ ConcIdle /\ TermIdle /\ HeaderIdle /\ DocIdle

SpecHist == InitHist /\ [][HistNext]_vars

InitChat == ChatInit /\ ScanIdle /\ ClauseIdle /\ OcrIdle /\ PipeIdle /\ ActIdle /\ TruncIdle /\ RepairIdle /\ HistIdle /\ CleanIdle /\ GmIdle /\ ConcIdle /\ TermIdle /\ HeaderIdle /\ DocIdle

SpecChat == InitChat /\ [][ChatNext]_vars

InitGemini == GmInit /\ ScanIdle /\ ClauseIdle /\ OcrIdle /\ PipeIdle /\ ActIdle /\ TruncIdle /\ RepairIdle /\ HistIdle /\ ChatIdle /\ CleanIdle /\ ConcIdle /\ TermIdle /\ HeaderIdle /\ DocIdle

SpecGemini == InitGemini /\ [][GmNext]_vars

InitConc == ConcInit /\ ScanIdle /\ ClauseIdle /\ OcrIdle /\ PipeIdle /\ ActIdle /\ TruncIdle /\ RepairIdle /\ HistIdle /\ ChatIdle /\ GmIdle /\ CleanIdle /\ TermIdle /\ HeaderIdle /\ DocIdle

SpecConc == InitConc /\ [][ConcNext]_vars

InitTerms == TermInit /\ ScanIdle /\ ClauseIdle /\ OcrIdle /\ PipeIdle /\ ActIdle /\ TruncIdle /\ RepairIdle /\ HistIdle /\ ChatIdle /\ GmIdle /\ ConcIdle /\ CleanIdle /\ HeaderIdle /\ DocIdle

SpecTerms == InitTerms /\ [][TermNext]_vars

InitHeaders == HeaderInit /\ ScanIdle /\ ClauseIdle /\ OcrIdle /\ PipeIdle /\ ActIdle /\ TruncIdle /\ RepairIdle /\ HistIdle /\ ChatIdle /\ GmIdle /\ ConcIdle /\ TermIdle /\ CleanIdle /\ DocIdle

SpecHeaders == InitHeaders /\ [][HeaderNext]_vars

InitDocs == DocInit /\ ScanIdle /\ ClauseIdle /\ OcrIdle /\ PipeIdle /\ ActIdle /\ TruncIdle /\ RepairIdle /\ HistIdle /\ ChatIdle /\ GmIdle /\ ConcIdle /\ TermIdle /\ HeaderIdle /\ CleanIdle

SpecDocs == InitDocs /\ [][DocNext]_vars

(***************************************************************************)
(* Claims.                                                                 *)
(***************************************************************************)
(***************************************************************************)
(* C1: the cleaning pipeline is idempotent: cleaning a cleaned text gives  *)
(* the cleaned text back, clean(clean(x)) = clean(x) for every text x.     *)
(* It fails: "x Page 5" cleans to "x " (the page number goes, the space    *)
(* before it stays) and "x " cleans to "x".                                *)
(***************************************************************************)
C1_CleanIdempotent == cl_pc = "recleaned" => cl_twice = cl_once

(***************************************************************************)
(* C5: is_scanned_pdf(text, threshold) is true exactly when the text       *)
(* without its leading and trailing whitespace is shorter than threshold:  *)
(* a stripped length of threshold-1 is scanned, one of threshold is not,   *)
(* for any threshold (default 50).                                         *)
(***************************************************************************)
C5_ScanBoundary ==
    sc_pc = "done" =>
        /\ sc_result <=> (sc_core_len < sc_threshold)
        /\ sc_core_len = sc_threshold - 1 => sc_result
        /\ sc_core_len = sc_threshold => ~ sc_result

\* A padded text one character under the default threshold is scanned.
C5_Witness ==
    /\ sc_pc = "done"
    /\ sc_threshold = ScanThreshold
    /\ sc_core_len = ScanThreshold - 1
    /\ Len(sc_text) > ScanThreshold
    /\ sc_result

(***************************************************************************)
(* C10: the list detect_legal_clauses returns is sorted non-decreasing by  *)
(* position, whichever patterns matched and in whatever order the clause   *)
(* types occur in the text.                                                *)
(***************************************************************************)
C10_ClausesSorted ==
    dc_pc = "done" =>
        \A j, k \in DOMAIN dc_clauses :
            j < k => dc_clauses[j].position <= dc_clauses[k].position

\* Three clauses whose types occur in the text against the order of the
\* pattern dict.
C10_Witness ==
    /\ dc_pc = "done"
    /\ Len(dc_clauses) = 3
    /\ dc_clauses[1].type = "TERMINATION"
    /\ dc_clauses[2].type = "THEREFORE"
    /\ dc_clauses[3].type = "WHEREAS"
    /\ dc_clauses[1].position < dc_clauses[2].position
    /\ dc_clauses[2].position < dc_clauses[3].position

\* Whether the text sub occurs in the text s.
Contains(s, sub) ==
    \E k \in 0..(Len(s) - Len(sub)) : SubSeq(s, k + 1, k + Len(sub)) = sub

(***************************************************************************)
(* C3: when extract_text_from_pdf_ocr returns, the temporary file it       *)
(* created no longer exists, whether it returns the text, or after the     *)
(* rasterizer failed, or after the OCR engine failed on a page.            *)
(* It fails: os.unlink runs only after the page loop; an exception skips   *)
(* it.                                                                     *)
(***************************************************************************)
C3_TempFileDeleted == oc_pc = "returned" => oc_tmp_path \notin fs

(***************************************************************************)
(* C7: when the OCR engine fails on one page of a rasterized PDF, every    *)
(* other page is still OCR-ed and its text is in the returned result.      *)
(* It fails: the exception leaves the loop and the result is the error     *)
(* message alone.                                                          *)
(***************************************************************************)
C7_OtherPagesKept ==
    (/\ oc_pc = "returned"
     /\ oc_doc.raster.ok
     /\ \E j \in DOMAIN oc_doc.scans : ~ oc_doc.scans[j].ok)
    => \A j \in DOMAIN oc_doc.scans :
          oc_doc.scans[j].ok =>
              Contains(oc_result, PageBlock(j - 1, oc_doc.scans[j].text))

(***************************************************************************)
(* C2: when the text extraction of the uploaded document fails, the        *)
(* ingestion stops there: neither the cleaner nor any analyzer (statistics,*)
(* entities, clauses, statutes, dates) is run on the document.             *)
(* It fails: the extractors return their error message as the text, and    *)
(* the message is cleaned and analyzed like a document.                    *)
(***************************************************************************)
C2_FailedExtractionAborts ==
    pp_failed =>
        \A k \in DOMAIN pp_calls :
            pp_calls[k].fn \notin Analyzers \cup { "clean_legal_document" }

(***************************************************************************)
(* C4: for a PDF, the text passed to the cleaner is exactly the result of  *)
(* the OCR path when the native text is classified scanned, and exactly    *)
(* the native text otherwise; the OCR path is not entered for a PDF whose  *)
(* native text is not classified scanned.                                  *)
(***************************************************************************)
C4_PdfRouting ==
    (pp_doc.ext = "pdf" /\ pp_pc # "upload") =>
        IF is_scanned_pdf(pp_pdf_text, ScanThreshold)
        THEN /\ oc_pc # "off"
             /\ \A k \in CallsOf("clean_legal_document") :
                    oc_pc = "returned" /\ pp_calls[k].arg = oc_result
        ELSE /\ oc_pc = "off"
             /\ \A k \in CallsOf("clean_legal_document") :
                    pp_calls[k].arg = pp_pdf_text

\* A readable PDF with blank pages only: the OCR path gave the text that
\* was cleaned.
C4_Witness ==
    /\ pp_doc.ext = "pdf"
    /\ pp_doc.parse.ok
    /\ Len(pp_doc.pages) = 2
    /\ is_scanned_pdf(pp_pdf_text, ScanThreshold)
    /\ CallsOf("clean_legal_document") # {}
    /\ oc_exc = << >>
    /\ pp_extracted = oc_result
    /\ pp_extracted # pp_pdf_text
    /\ pp_cleaned # << >>

(***************************************************************************)
(* C6: in the native extraction of a PDF, a page whose extraction fails    *)
(* counts as the empty string, and the texts of the other pages are        *)
(* returned in page order.                                                 *)
(* It fails: the loop over the pages is inside one try, the first failing  *)
(* page makes the whole result the error message.                          *)
(***************************************************************************)
C6_PageFailureTolerated ==
    (/\ pp_doc.ext = "pdf"
     /\ pp_pc # "upload"
     /\ pp_doc.parse.ok
     /\ \E k \in DOMAIN pp_doc.pages : ~ pp_doc.pages[k].ok)
    => pp_pdf_text =
          JoinParas([ k \in DOMAIN pp_doc.pages |->
                        IF pp_doc.pages[k].ok THEN pp_doc.pages[k].text ELSE << >> ])

(***************************************************************************)
(* C8: when the spaCy model is not loaded, extract_named_entities returns  *)
(* its error marker without raising, and the ingestion still computes      *)
(* clauses, statute references, dates and statistics, all from the same    *)
(* text.                                                                   *)
(* It fails with a translated document: the statistics are computed from   *)
(* the text before the translation, the others from the translation.       *)
(***************************************************************************)
C8_TaggerUnavailable ==
    (pp_nlp = "no" /\ pp_pc = "analyzed") =>
        /\ pp_entities.error = "spaCy model not loaded"
        /\ \A fn \in Analyzers : Cardinality(CallsOf(fn)) = 1
        /\ \A j, k \in DOMAIN pp_calls :
              (/\ pp_calls[j].fn \in Analyzers \ { "extract_named_entities" }
               /\ pp_calls[k].fn \in Analyzers \ { "extract_named_entities" })
              => pp_calls[j].arg = pp_calls[k].arg

\* Without a translation the statistics and the other analyzers do get the
\* same text when the spaCy model is not loaded.
TaggerUnavailableUntranslated ==
    (pp_nlp = "no" /\ pp_pc = "analyzed" /\ pp_translation = "none") =>
        /\ pp_entities.error = "spaCy model not loaded"
        /\ \A fn \in Analyzers : Cardinality(CallsOf(fn)) = 1
        /\ \A k \in DOMAIN pp_calls :
              pp_calls[k].fn \in Analyzers \ { "extract_named_entities" }
              => pp_calls[k].arg = pp_cleaned

(***************************************************************************)
(* C9: when the translation API raises, only the translation is lost:      *)
(* entities, clauses, statute references and dates are computed from the   *)
(* cleaned text of the document, never from an error message.              *)
(* It fails: the error text of the API comes back as the translation and   *)
(* replaces the text that is analyzed.                                     *)
(***************************************************************************)
C9_TranslationFailureIsolated ==
    pp_translation = "failed" =>
        \A k \in DOMAIN pp_calls :
            pp_calls[k].fn \in Analyzers =>
                pp_calls[k].arg = Prefix(pp_cleaned, Len(pp_calls[k].arg))

\* "Indian Penal Code, 1860"
IpcOf1860 ==
    << "I","n","d","i","a","n"," ","P","e","n","a","l"," ","C","o","d","e",",",
       " ","1","8","6","0" >>

(***************************************************************************)
(* C11: the result of detect_indian_acts has no duplicates: a reference    *)
(* that occurs several times in the text, or that several patterns match   *)
(* with the same text, is in the result exactly once.                      *)
(***************************************************************************)
C11_ActsDeduplicated ==
    da_pc = "done" =>
        /\ BagToSet(da_acts) = Range(da_found)
        /\ \A e \in BagToSet(da_acts) : CopiesIn(e, da_acts) = 1

\* "Indian Penal Code, 1860" occurs twice in the text and once in the
\* result, next to an act that two patterns matched with the same text.
C11_Witness ==
    /\ da_pc = "done"
    /\ Cardinality({ k \in DOMAIN da_found : da_found[k] = IpcOf1860 }) = 2
    /\ CopiesIn(IpcOf1860, da_acts) = 1
    /\ \E e \in BagToSet(da_acts) :
          /\ e # IpcOf1860
          /\ Cardinality({ k \in DOMAIN da_found : da_found[k] = e }) = 2

\* The text of the example: LongLen characters, one period, at LongPeriod.
LongExample ==
    /\ tr_pc = "done"
    /\ tr_text = Sentences(LongLen, { LongPeriod })
    /\ tr_max_length = LongMax
    /\ tr_add_ellipsis

(***************************************************************************)
(* C12, as stated: truncate_text on a text of 10,000 characters with a     *)
(* period at offset 8,050 and max_length = 8000 cuts after the period, at  *)
(* 8,051, and appends the ellipsis.                                        *)
(***************************************************************************)
C12_CutAtLaterPeriod ==
    LongExample => tr_result = Prefix(tr_text, LongPeriod + 1) \o Ellipsis

(***************************************************************************)
(* C12, amended: the period is looked for inside the first max_length      *)
(* characters only.  The text of the example is cut at 8,000 and the       *)
(* ellipsis appended; no call keeps more than max_length characters of the *)
(* text.                                                                   *)
(***************************************************************************)
C12_CutInsideWindow ==
    /\ LongExample => tr_result = Prefix(tr_text, LongMax) \o Ellipsis
    /\ (tr_pc = "done" /\ Len(tr_text) > tr_max_length) =>
          \E n \in 0..tr_max_length :
              tr_result = Prefix(tr_text, n) \o (IF tr_add_ellipsis THEN Ellipsis ELSE << >>)

C12_Witness ==
    /\ LongExample
    /\ Len(tr_result) = LongMax + 3
    /\ tr_text[LongPeriod + 1] = "."

\* Offsets of the periods in the first max_length characters.
WindowPeriods == { p \in 0..(tr_max_length - 1) : p < Len(tr_text) /\ tr_text[p + 1] = "." }

\* The last of them lies after more than four fifths of max_length.
LatePeriod ==
    \E p \in WindowPeriods :
        /\ \A q \in WindowPeriods : q <= p
        /\ 5 * p > 4 * tr_max_length

\* What is kept of the text.
KeptLen ==
    IF Len(tr_text) <= tr_max_length THEN Len(tr_text)
    ELSE IF LatePeriod THEN 1 + CHOOSE p \in WindowPeriods : \A q \in WindowPeriods : q <= p
    ELSE tr_max_length

HonbleExpanded ==
    << "H", "o", "n", "o", "r", "a", "b", "l", "e", " ", "C", "o", "u",
       "r", "t", " ", "r", "e", "f", "e", "r", "r", "e", "d", " ", "t",
       "o", " ", "s", "e", "c", "t", "i", "o", "n", " ", "4", "2", "0",
       " ", "I", "n", "d", "i", "a", "n", " ", "P", "e", "n", "a", "l",
       " ", "C", "o", "d", "e" >>

(***************************************************************************)
(* C14: cleaning "Hon'ble Court referred to sec. 420 IPC" yields a text    *)
(* that contains "Honorable Court referred to section 420 Indian Penal     *)
(* Code": "sec." is replaced together with its period.                     *)
(***************************************************************************)
C14_AbbreviationsExpanded ==
    (cl_pc # "raw" /\ cl_text = HonbleExample) => Contains(cl_once, HonbleExpanded)

\* The lines of the raw text, stripped.
RawLines == { Strip(l) : l \in Range(SplitLines(cl_text)) }

\* How many lines of the raw text are the line l.
Occurrences(l) ==
    Cardinality({ k \in DOMAIN SplitLines(cl_text) : Strip(SplitLines(cl_text)[k]) = l })

(***************************************************************************)
(* C16: a line of 5 to 100 characters that occurs on more than 3 lines of  *)
(* the document does not occur in the cleaned text.                        *)
(***************************************************************************)
C16_RepeatedLinesRemoved ==
    cl_pc # "raw" =>
        \A l \in RawLines :
            (Len(l) >= 5 /\ Len(l) <= 100 /\ Occurrences(l) > 3) => ~Contains(cl_once, l)

\* ^\s*\d+\s*$ on one line.
IsNumericLine(l) == l # << >> /\ \A k \in DOMAIN l : l[k] \in Digits

\* Every digit of the raw text is on a purely numeric line.
DigitsOnlyInPageNumbers ==
    \A l \in RawLines : (\E k \in DOMAIN l : l[k] \in Digits) => IsNumericLine(l)

(***************************************************************************)
(* C17: the cleaned text contains no "Page N" (the word Page, whitespace,  *)
(* digits) and no purely numeric line of the input: when every digit of    *)
(* the input is on such a line, the cleaned text has no digit.             *)
(***************************************************************************)
C17_PageNumbersRemoved ==
    cl_pc # "raw" =>
        /\ Search(Cat(<< Word(<< "P", "a", "g", "e" >>), Plus(Cls(Whitespace)),
                         Plus(Cls(Digits)) >>), cl_once, 0, NoFlags).st = -1
        /\ DigitsOnlyInPageNumbers => \A k \in DOMAIN cl_once : cl_once[k] \notin Digits

\* The characters the repair step is said to replace.
OcrArtifacts ==
    { "|", "FW0", "FW1", "LSQUOTE", "RSQUOTE", "LDQUOTE", "RDQUOTE", "EMDASH", "ENDASH" }

(***************************************************************************)
(* C18: the output of clean_ocr_text contains no pipe, no full-width       *)
(* digit, no curly single or double quote and no em or en dash, and its    *)
(* only whitespace is single spaces.                                       *)
(***************************************************************************)
C18_ArtifactsRepaired ==
    co_pc = "done" =>
        /\ \A k \in DOMAIN co_result : co_result[k] \notin OcrArtifacts
        /\ \A k \in DOMAIN co_result : co_result[k] \notin (Whitespace \ { " " })
        /\ \A k \in 1..(Len(co_result) - 1) : ~(co_result[k] = " " /\ co_result[k + 1] = " ")

\* "Indian Contract Act, 1872"
IndianContractAct1872 ==
    << "I", "n", "d", "i", "a", "n", " ", "C", "o", "n", "t", "r", "a",
       "c", "t", " ", "A", "c", "t", ",", " ", "1", "8", "7", "2" >>

\* "Section 10"
Section10 == << "S", "e", "c", "t", "i", "o", "n", " ", "1", "0" >>

\* The upload is the DOCX file whose only paragraph is the WHEREAS
\* sentence, and it was analyzed untranslated.
WhereasDocAnalyzed ==
    /\ pp_pc = "analyzed"
    /\ pp_doc.ext = "docx"
    /\ pp_doc.parse.ok
    /\ pp_doc.pages = << Returns(WhereasParagraph) >>
    /\ pp_translation = "none"

(***************************************************************************)
(* C15: the DOCX file whose only paragraph is "WHEREAS the Parties agree   *)
(* to the terms under Section 10 of the Indian Contract Act, 1872;" yields *)
(* exactly one clause, of type WHEREAS, the statute reference "Indian      *)
(* Contract Act, 1872" and the section reference "Section 10".  (The       *)
(* sentence count is the tokenizer's.)                                     *)
(***************************************************************************)
C15_WhereasScenario ==
    WhereasDocAnalyzed =>
        /\ Len(pp_clauses) = 1
        /\ pp_clauses[1].type = "WHEREAS"
        /\ BagIn(IndianContractAct1872, pp_acts)
        /\ BagIn(Section10, pp_acts)

(***************************************************************************)
(* C19: within one ingestion the statistics, the entities, the clauses,    *)
(* the statute references and the dates are computed over the same text:   *)
(* the cleaned text when nothing was translated, the translation when the  *)
(* document was translated (the entities over its first 5000 characters).  *)
(***************************************************************************)
C19_AnalyzersSameText ==
    (pp_pc = "analyzed" /\ pp_translation \in { "none", "done" }) =>
        \A k \in DOMAIN pp_calls :
            pp_calls[k].fn \in Analyzers =>
                pp_calls[k].arg =
                    IF pp_calls[k].fn = "extract_named_entities"
                    THEN Prefix(pp_final, EntityLimit)
                    ELSE pp_final

(***************************************************************************)
(* C20: every text handed to analyze_legal_document is the result of a     *)
(* truncate_text call made before, so it is at most max_length + 3         *)
(* characters long, in the file-upload flow and in the text-input flow.    *)
(***************************************************************************)
C20_AnalysisTextTruncated ==
    \A k \in CallsOf("analyze_legal_document") :
        /\ \E j \in 1..(k - 1) :
              /\ pp_calls[j].fn = "truncate_text"
              /\ pp_calls[k].arg = truncate_text(pp_calls[j].arg, AnalysisLimit, TRUE)
        /\ Len(pp_calls[k].arg) <= AnalysisLimit + 3

\* The calls that extract text from the uploaded file.
Extractors ==
    { "extract_text_from_pdf", "extract_text_from_pdf_ocr",
      "extract_text_from_docx", "extract_text_from_image" }

\* PdfReader or a page's extract_text raised inside extract_text_from_pdf.
NativeExtractionRaised ==
    /\ pp_doc.ext = "pdf"
    /\ CallsOf("extract_text_from_pdf") # {}
    /\ \/ ~ pp_doc.parse.ok
       \/ \E k \in DOMAIN pp_doc.pages : ~ pp_doc.pages[k].ok

(***************************************************************************)
(* C21: within one ingestion, once an extraction call has failed, no       *)
(* further extraction or OCR call is made on the document.  (The DOCX and  *)
(* the image extraction and the OCR of a PDF are the last extraction call  *)
(* of their branch; the native PDF extraction is the one that can have a   *)
(* successor.)                                                             *)
(***************************************************************************)
C21_NoRetryAfterFailure ==
    NativeExtractionRaised =>
        \A k \in CallsOf("extract_text_from_pdf") :
            \A j \in (k + 1)..Len(pp_calls) : pp_calls[j].fn \notin Extractors

IsErrorText(content) ==
    \E reply \in ChatReplies : ~ reply.ok /\ content = ApiError(reply.text)

\* C23: within one chat session, the message list sent to the model for a
\* question contains every earlier user question and every earlier reply
\* of the model of that session, across the reruns of the page.
C23_ContextKept ==
    \A n \in DOMAIN ch_requests :
        \A k \in DOMAIN ch_requests[n].earlier :
            ~ IsErrorText(ch_requests[n].earlier[k].content) =>
                \E j \in DOMAIN ch_requests[n].messages :
                    ch_requests[n].messages[j] = ch_requests[n].earlier[k]

\* The call has saved its temporary file and has not deleted it.
HasFile(t) == cc_tmp_path[t] # 0 /\ cc_unlinked[t] = 0

(***************************************************************************)
(* C24: two calls of extract_text_from_pdf_ocr running on two threads do   *)
(* not interfere: while both temporary files exist they are two files, a   *)
(* call rasterizes and deletes only the file it wrote itself, and each     *)
(* call returns what it returns when it runs alone.                        *)
(***************************************************************************)
C24_NoInterference ==
    /\ \A t \in Threads :
          /\ cc_read[t] \in { 0, t }
          /\ cc_unlinked[t] \in { 0, t }
          /\ cc_pc[t] = "returned" =>
                cc_result[t] = extract_text_from_pdf_ocr(cc_doc[t])
    /\ \A t, u \in Threads :
          (t # u /\ HasFile(t) /\ HasFile(u)) => cc_tmp_path[t] # cc_tmp_path[u]

\* Both calls have returned, after their page loops ran interleaved: each
\* read its file while the file of the other existed.
C24_Witness ==
    /\ \A t \in Threads : cc_pc[t] = "returned" /\ cc_read[t] = t
    /\ \E t \in Threads : cc_unlinked[t] = t /\ cc_tmp_path[t] = 2
    /\ cc_doc[1] # cc_doc[2]

(***************************************************************************)
(* C25: standardize_legal_terms applied to its own result changes nothing, *)
(* and no abbreviation pattern matches anywhere in that result.            *)
(***************************************************************************)
C25_ExpansionIdempotent ==
    st_pc = "twice" => (st_twice = st_once /\ st_matched = {})

\* An abbreviation followed by a period and by a second abbreviation: the
\* first is expanded and takes the period with it, the second is then part
\* of one word with it, and the second application keeps the text.
C25_Witness ==
    /\ st_pc = "twice"
    /\ st_text = << "s", "e", "c", ".", "i", "p", "c" >>
    /\ st_once = << "s", "e", "c", "t", "i", "o", "n", "i", "p", "c" >>
    /\ st_twice = st_once

\* The lines left when the lines are dropped whose stripped form has a
\* length from lo to hi and occurs more than 3 times, joined by "\n".
WithoutRepeated(lines, lo, hi) ==
    LET stripped == Table([ k \in DOMAIN lines |-> Strip(lines[k]) ])
        dropped == { k \in DOMAIN lines :
                       /\ Len(stripped[k]) \in lo..hi
                       /\ Cardinality({ j \in DOMAIN lines :
                                          stripped[j] = stripped[k] }) > 3 }
        kept == SelectSeq([ k \in DOMAIN lines |-> k ], LAMBDA k : k \notin dropped)
    IN  JoinLines([ i \in DOMAIN kept |-> lines[kept[i]] ])

(***************************************************************************)
(* C26: remove_headers_footers removes exactly the lines whose stripped    *)
(* form is 5 to 100 characters long and occurs more than 3 times, all of   *)
(* their occurrences, and keeps every other line as it is, in order.       *)
(* It fails at both ends: the test is 5 < length < 100.                    *)
(***************************************************************************)
C26_RemovesFiveToHundred ==
    hf_pc = "returned" => hf_result = WithoutRepeated(hf_lines, 5, 100)

(***************************************************************************)
(* C26, amended: the lines removed are those whose stripped form is 6 to   *)
(* 99 characters long and occurs more than 3 times.                        *)
(***************************************************************************)
C26_RemovesSixToNinetyNine ==
    hf_pc = "returned" => hf_result = WithoutRepeated(hf_lines, 6, 99)

\* Four occurrences of a line of 99 characters, one of them with blanks
\* about it, and before the last of them another line: that line alone
\* is left.
C26_Witness ==
    /\ hf_pc = "returned"
    /\ Len(hf_lines) = 5
    /\ hf_lines[4] = LineOfLen("g", 99)
    /\ hf_lines[2] = << " " >> \o LineOfLen("h", 99) \o << "\t" >>
    /\ hf_result = LineOfLen("g", 99)

(***************************************************************************)
(* C27: the documents table holds at most one row for each file content;   *)
(* add_document with a content already stored returns the id of the row    *)
(* that holds it and leaves the table as it was.                           *)
(***************************************************************************)
C27_KeyedByContentHash ==
    /\ \A i, j \in DOMAIN doc_rows :
          doc_rows[i].file_hash = doc_rows[j].file_hash => i = j
    /\ \A i, j \in DOMAIN doc_rows : doc_rows[i].id = doc_rows[j].id => i = j
    /\ \A k \in DOMAIN doc_before :
          doc_before[k].file_hash = Sha256(doc_call.file_content) =>
              /\ doc_rows = doc_before
              /\ doc_returned = doc_before[k].id

\* The last call brought a content that was stored under another name and
\* another text length, with a different content stored after it: the call
\* returned the id of the first row and the table has its two rows.
C27_Witness ==
    /\ Len(doc_before) = 2
    /\ doc_before[1].file_hash = Sha256(doc_call.file_content)
    /\ doc_before[1].filename # doc_call.filename
    /\ doc_before[1].text_length # doc_call.text_length
    /\ doc_returned = 1
    /\ doc_rows = doc_before

\* The result without the three characters appended last.
BeforeEllipsis(result) == SubSeq(result, 1, Len(result) - 3)

(***************************************************************************)
(* C28: when truncate_text cuts the text, its result, the appended "..."   *)
(* taken off, is a prefix of the text of at most max_length characters;    *)
(* the result of any call is at most max_length + 3 characters long.       *)
(***************************************************************************)
C28_PrefixWithinLimit ==
    tr_pc = "done" =>
        /\ Len(tr_result) <= tr_max_length + 3
        /\ (Len(tr_text) > tr_max_length /\ tr_add_ellipsis) =>
              /\ Len(tr_result) >= 3
              /\ SubSeq(tr_result, Len(tr_result) - 2, Len(tr_result)) = << ".", ".", "." >>
              /\ Len(BeforeEllipsis(tr_result)) <= tr_max_length
              /\ BeforeEllipsis(tr_result) = Prefix(tr_text, Len(BeforeEllipsis(tr_result)))
        /\ (Len(tr_text) > tr_max_length /\ ~ tr_add_ellipsis) =>
              /\ Len(tr_result) <= tr_max_length
              /\ tr_result = Prefix(tr_text, Len(tr_result))

\* max_length = 0 on a text that is not empty: nothing of the text is
\* kept, the result is the ellipsis alone, of max_length + 3 characters.
C28_Witness ==
    /\ tr_pc = "done"
    /\ tr_max_length = 0
    /\ Len(tr_text) > 0
    /\ tr_add_ellipsis
    /\ tr_result = << ".", ".", "." >>

\* A system entry followed by user and assistant entries in turn, the
\* first of them a user entry.
Alternates(history) ==
    /\ history # << >>
    /\ history[1].role = "system"
    /\ \A k \in 2..Len(history) :
          history[k].role = (IF k % 2 = 0 THEN "user" ELSE "assistant")

(***************************************************************************)
(* C29: after any calls of start_chat and send_chat_message on one         *)
(* GeminiFlash instance, failed requests among them, chat_history is the   *)
(* system entry followed by user and assistant entries in turn, and every  *)
(* request sent has that shape, ending in the user entry just added.       *)
(* It fails: a failed request leaves its user entry without a reply, and   *)
(* the next message is appended after it.                                  *)
(***************************************************************************)
C29_HistoryAlternates ==
    /\ gm_calls > 0 => Alternates(gm_chat_history)
    /\ \A n \in DOMAIN gm_requests : Alternates(gm_requests[n])

\* The last n messages of a session in the order they were inserted.
LastInserted(table, session_id, n) ==
    [ k \in 1..Limited(Len(OfSession(table, session_id)), n) |->
        Columns(OfSession(table, session_id)
                    [Len(OfSession(table, session_id))
                        - Limited(Len(OfSession(table, session_id)), n) + k]) ]

(***************************************************************************)
(* C30: get_chat_history(session_id, limit) returns the messages of that   *)
(* session only, at most limit of them, the ones inserted last, in the     *)
(* order they were inserted, also when a question and its reply were       *)
(* stored within one second.                                               *)
(* It fails: the rows are ordered by the timestamp alone, which is in      *)
(* whole seconds; rows of one second come in an order the query does not   *)
(* fix, and LIMIT may keep the older of them.                              *)
(***************************************************************************)
C30_LatestInOrder ==
    db_query # NoQuery =>
        db_messages = LastInserted(db_chat, db_query.session_id, db_query.limit)

=============================================================================
